---- MODULE Spec2Model ----
(***************************************************************************)
(* A model of pyfind (src/project/find.py): the expression parser, the     *)
(* expression tree evaluation and the traversal driver.                    *)
(*                                                                         *)
(* Paths are sequences of names (os.path.join appends one component).      *)
(* A stat result is the identifier of the inode it describes; None is the  *)
(* absent value of the Python code.                                        *)
(***************************************************************************)
EXTENDS Integers, Sequences, FiniteSets, TLC

VARIABLES
    pc,             \* position of main: "parse", "traverse", "exit"
    tokens,         \* expression tokens handed to parse_expression
    expr,           \* the parsed expression tree
    opts,           \* Options
    paths,          \* start paths
    ri,             \* index of the next start path of the for loop in traverse
    stack,          \* activation records of walk, innermost last
    start_dev,      \* device of the current start path
    visited_dirs,   \* (dev, ino) pairs of the current start path
    quit,           \* EvalContext.quit
    prune_flag,     \* EvalContext.prune_flag
    suppress,       \* EvalContext._suppress_actions
    open_files,     \* keys of EvalContext._open_files
    closed,         \* output files whose handle has been closed
    total_matches,  \* matches counted by traverse
    exists,         \* inodes currently present in the filesystem
    out,            \* visible effects so far, in order
    err,            \* messages written to stderr by eprint, in order
    evals,          \* history: one record per evaluation of the expression
    status,         \* exit status of main, None while running
    cwd,            \* the directory the process runs in
    argv_empty,     \* main was called with an empty argument list
    input,          \* the arguments of a function applied on its own
    result,         \* its result, None before the call
    stdout          \* what the findlike command has written to sys.stdout

vars == <<pc, tokens, expr, opts, paths, ri, stack, start_dev, visited_dirs,
          quit, prune_flag, suppress, open_files, closed, total_matches, exists,
          out, err, evals, status, cwd, argv_empty, input, result, stdout>>

\* what no step of main and traverse writes
invocation == <<cwd, argv_empty, input, result, stdout>>

None == -1

(***************************************************************************)
(* Bounds of the model.                                                    *)
(***************************************************************************)
MaxMaxDepth == 2
MaxMinDepth == 2

(***************************************************************************)
(* The filesystem the traversal runs on.  The top directory is inode 0.    *)
(*    r/            directory, device 1                                    *)
(*    r/a           regular file, 1 byte                                   *)
(*    r/d/          directory                                              *)
(*    r/d/m/        empty directory                                        *)
(*    r/e/          directory on device 2 (a mount point)                  *)
(*    r/e/l -> d    symlink to the directory r/d, on device 2              *)
(*    f             regular file, 0 bytes                                  *)
(*    s -> r        symlink to the directory r                             *)
(*    u/            directory that may not be listed (no read permission)  *)
(*    u/w           regular file, 2 bytes                                  *)
(*    root/         directory                                              *)
(*    root/a.txt    regular file, 5 bytes                                  *)
(*    root/sub/     directory                                              *)
(*    root/sub/b.log  regular file, 0 bytes                                *)
(*    k/            directory                                              *)
(*    k/c -> k      symlink to the directory it is in                      *)
(*    k/p           FIFO                                                   *)
(* st_size of a directory is one block of 4096 bytes, st_size of a symlink *)
(* the length of its target.                                               *)
(***************************************************************************)
Cwd == 0

Ino(name, parent, st_mode, target, st_dev, st_size) ==
    [name |-> name, parent |-> parent, st_mode |-> st_mode, target |-> target,
     st_dev |-> st_dev, st_size |-> st_size]

FS ==
    [i \in 1..17 |->
        CASE i = 1 -> Ino("r", Cwd, "dir", None, 1, 4096)
          [] i = 2 -> Ino("a", 1, "reg", None, 1, 1)
          [] i = 3 -> Ino("d", 1, "dir", None, 1, 4096)
          [] i = 4 -> Ino("m", 3, "dir", None, 1, 4096)
          [] i = 5 -> Ino("e", 1, "dir", None, 2, 4096)
          [] i = 6 -> Ino("l", 5, "lnk", 3, 2, 4)
          [] i = 7 -> Ino("f", Cwd, "reg", None, 1, 0)
          [] i = 8 -> Ino("s", Cwd, "lnk", 1, 1, 1)
          [] i = 9 -> Ino("u", Cwd, "dir", None, 1, 4096)
          [] i = 10 -> Ino("w", 9, "reg", None, 1, 2)
          [] i = 11 -> Ino("root", Cwd, "dir", None, 1, 4096)
          [] i = 12 -> Ino("a.txt", 11, "reg", None, 1, 5)
          [] i = 13 -> Ino("sub", 11, "dir", None, 1, 4096)
          [] i = 14 -> Ino("b.log", 13, "reg", None, 1, 0)
          [] i = 15 -> Ino("k", Cwd, "dir", None, 1, 4096)
          [] i = 16 -> Ino("c", 15, "lnk", 15, 1, 4)
          [] i = 17 -> Ino("p", 15, "fifo", None, 1, 0)]

Inodes == DOMAIN FS

\* statmod.S_ISDIR / S_ISLNK / S_ISREG on the mode of a stat result
S_ISDIR(ino) == FS[ino].st_mode = "dir"
S_ISLNK(ino) == FS[ino].st_mode = "lnk"
S_ISREG(ino) == FS[ino].st_mode = "reg"

\* the entry called name in directory dir, None when there is none; the
\* name . is the directory itself
Child(dir, name, ex) ==
    LET c == {i \in ex : FS[i].parent = dir /\ FS[i].name = name}
    IN  IF name = "." THEN dir
        ELSE IF c = {} THEN None ELSE CHOOSE i \in c : TRUE

\* the inode a chain of symlinks ends at, None for a dangling link
RECURSIVE Deref(_, _)
Deref(ino, ex) ==
    IF ino = None \/ ino \notin ex THEN None
    ELSE IF S_ISLNK(ino) THEN Deref(FS[ino].target, ex)
    ELSE ino

\* the directory the components of path lead to, starting from dir
RECURSIVE Lookup(_, _, _)
Lookup(dir, path, ex) ==
    IF dir = None THEN None
    ELSE IF Len(path) = 1 THEN Child(dir, path[1], ex)
    ELSE CHOOSE found \in
             {IF nxt = None \/ ~S_ISDIR(nxt) THEN None
              ELSE Lookup(nxt, Tail(path), ex) :
                  nxt \in {Deref(Child(dir, path[1], ex), ex)}} : TRUE

\* relative paths start in the directory of the process
os_lstat(path, ex) == Lookup(cwd, path, ex)
os_stat(path, ex) == Deref(os_lstat(path, ex), ex)

\* the directories os.scandir raises PermissionError on
Unreadable == {9}

\* the names os.scandir(path) yields: those of the entries of the directory
\* dir that path leads to
os_scandir(path, ex) ==
    UNION {{FS[i].name : i \in {j \in ex : FS[j].parent = dir}} :
              dir \in {os_stat(path, ex)}}

get_stats(path, follow_symlinks, ex) ==
    LET lst == os_lstat(path, ex)
    IN  IF lst = None THEN [lst |-> None, st |-> None]
        ELSE IF follow_symlinks
             THEN LET s == os_stat(path, ex)
                  IN  [lst |-> lst, st |-> IF s = None THEN lst ELSE s]
             ELSE [lst |-> lst, st |-> lst]

\* the characters of the names, patterns and size arguments of the model that
\* have more than one
Chars(str) ==
    CASE str = "root" -> <<"r", "o", "o", "t">>
      [] str = "sub" -> <<"s", "u", "b">>
      [] str = "a.txt" -> <<"a", ".", "t", "x", "t">>
      [] str = "b.log" -> <<"b", ".", "l", "o", "g">>
      [] str = "*.txt" -> <<"*", ".", "t", "x", "t">>
      [] str = "?.log" -> <<"?", ".", "l", "o", "g">>
      [] str = "1k" -> <<"1", "k">>
      [] str = "0k" -> <<"0", "k">>
      [] str = "+1c" -> <<"+", "1", "c">>
      [] str = "-1" -> <<"-", "1">>
      [] str = "1x" -> <<"1", "x">>
      [] OTHER -> <<str>>

(***************************************************************************)
(* Expression nodes.                                                       *)
(***************************************************************************)
BoolNode(value) == [op |-> "bool", value |-> value]
NotNode(child) == [op |-> "not", child |-> child]
AndNode(left, right) == [op |-> "and", left |-> left, right |-> right]
OrNode(left, right) == [op |-> "or", left |-> left, right |-> right]
CommaNode(left, right) == [op |-> "comma", left |-> left, right |-> right]
NameNode(pattern) == [op |-> "name", pattern |-> pattern]
TypeNode(types) == [op |-> "type", types |-> types]
PrintNode(null) == [op |-> "print", null |-> null]
FPrintNode(path, null) == [op |-> "fprint", path |-> path, null |-> null]
PruneNode == [op |-> "prune"]
QuitNode == [op |-> "quit"]
DeleteNode == [op |-> "delete"]
ExecNode(argv, plus, in_dir, prompt) ==
    [op |-> "exec", argv |-> argv, plus |-> plus, in_dir |-> in_dir, prompt |-> prompt]
EmptyNode == [op |-> "empty"]

(***************************************************************************)
(* -size.  The argument is a sequence of characters; a result with         *)
(* ok = FALSE models the ValueError of size_bytes_from_spec.               *)
(***************************************************************************)
Digits == {"0", "1", "2", "3", "4", "5", "6", "7", "8", "9"}

DigitValue(ch) ==
    CASE ch = "0" -> 0 [] ch = "1" -> 1 [] ch = "2" -> 2 [] ch = "3" -> 3
      [] ch = "4" -> 4 [] ch = "5" -> 5 [] ch = "6" -> 6 [] ch = "7" -> 7
      [] ch = "8" -> 8 [] ch = "9" -> 9

\* int() of a string of digits
RECURSIVE int(_)
int(ds) ==
    IF ds = <<>> THEN 0
    ELSE 10 * int(SubSeq(ds, 1, Len(ds) - 1)) + DigitValue(ds[Len(ds)])

\* the multiplier of a suffix
size_multiplier(suf) ==
    CASE suf = "" -> 512
      [] suf = "b" -> 512
      [] suf = "c" -> 1
      [] suf = "w" -> 2
      [] suf = "k" -> 1024
      [] suf = "M" -> 1024 * 1024
      [] suf = "G" -> 1024 * 1024 * 1024

\* (\d+): the characters between the sign and the suffix are digits, one at
\* least
size_match(sign, digits, suf) ==
    IF digits = <<>> \/ \E i \in 1..Len(digits) : digits[i] \notin Digits
    THEN [ok |-> FALSE, sign |-> "=", n |-> 0, mul |-> 1]
    ELSE [ok |-> TRUE, sign |-> sign, n |-> int(digits), mul |-> size_multiplier(suf)]

\* ([bcwkMG]?): the suffix of the characters after the sign
size_suffix(sign, rest) ==
    IF rest # <<>> /\ rest[Len(rest)] \in {"b", "c", "w", "k", "M", "G"}
    THEN size_match(sign, SubSeq(rest, 1, Len(rest) - 1), rest[Len(rest)])
    ELSE size_match(sign, rest, "")

\* the match of ([+-]?)(\d+)([bcwkMG]?) against the whole of spec, then the
\* multiplier of the suffix
size_bytes_from_spec(spec) ==
    IF spec # <<>> /\ spec[1] \in {"+", "-"}
    THEN size_suffix(spec[1], Tail(spec))
    ELSE size_suffix("=", spec)

SizeNode(r) == [op |-> "size", sign |-> r.sign, n |-> r.n, mul |-> r.mul]

\* the number of units of a size with the remainder dropped
blocks_rounded_down(size, mul) == size \div mul

\* blocks = (size + self.mul - 1) // self.mul
blocks_of(size, mul) == (size + mul - 1) \div mul

\* the comparison of SizeNode.eval
size_test(sign, n, mul, size) ==
    IF sign = "+" THEN blocks_of(size, mul) > n
    ELSE IF sign = "-" THEN blocks_of(size, mul) < n
    ELSE blocks_of(size, mul) = n

(***************************************************************************)
(* Tokens and parse_expression.  A parse result is [ok, node, i]: i is     *)
(* Tokens.i after the call (1-based), ok = FALSE models a raised           *)
(* ValueError.                                                             *)
(***************************************************************************)
peek(toks, i) == IF i <= Len(toks) THEN toks[i] ELSE "None"

ParseOk(node, i) == [ok |-> TRUE, node |-> node, i |-> i]
ParseError == [ok |-> FALSE, node |-> BoolNode(FALSE), i |-> 0]

\* SizeNode(spec), or the ValueError of its constructor; i is Tokens.i after
\* the argument
size_node_of(r, i) == IF r.ok THEN ParseOk(SizeNode(r), i) ELSE ParseError

\* the loop of the -exec branch with ';' as its only terminator
RECURSIVE parse_exec_args_semicolon(_, _, _, _)
parse_exec_args_semicolon(toks, i, args, tok) ==
    LET a == peek(toks, i)
    IN  IF i > Len(toks) THEN ParseError
        ELSE IF a = ";"
             THEN ParseOk(ExecNode(args, FALSE, tok \in {"-execdir", "-okdir"},
                                   tok \in {"-ok", "-okdir"}), i + 1)
        ELSE parse_exec_args_semicolon(toks, i + 1, Append(args, a), tok)

\* the loop of the -exec branch: collect arguments up to ';' or '+'
RECURSIVE parse_exec_args(_, _, _, _)
parse_exec_args(toks, i, args, tok) ==
    LET a == peek(toks, i)
    IN  IF i > Len(toks) THEN ParseError
        ELSE IF a = ";"
             THEN ParseOk(ExecNode(args, FALSE, tok \in {"-execdir", "-okdir"},
                                   tok \in {"-ok", "-okdir"}), i + 1)
        ELSE IF a = "+"
             THEN ParseOk(ExecNode(args, TRUE, tok \in {"-execdir", "-okdir"},
                                   tok \in {"-ok", "-okdir"}), i + 1)
        ELSE parse_exec_args(toks, i + 1, Append(args, a), tok)

\* a token that is no test and no action taken for -true
unknown_token_accepted(tok, i) == ParseOk(BoolNode(TRUE), i)

\* the raise at the end of parse_primary
unknown_token(tok, i) == ParseError

\* the tests and actions of parse_primary: tok is the token just consumed,
\* i the position after it
parse_test_or_action(toks, tok, i) ==
    CASE tok = "-true" -> ParseOk(BoolNode(TRUE), i)
      [] tok = "-false" -> ParseOk(BoolNode(FALSE), i)
      [] tok = "-name" ->
            IF i > Len(toks) THEN ParseError
            ELSE ParseOk(NameNode(toks[i]), i + 1)
      [] tok = "-type" ->
            IF i > Len(toks) \/ peek(toks, i) = "" THEN ParseError
            ELSE ParseOk(TypeNode(toks[i]), i + 1)
      [] tok \in {"-print", "-print0"} -> ParseOk(PrintNode(tok = "-print0"), i)
      [] tok \in {"-fprint", "-fprint0"} ->
            IF i > Len(toks) THEN ParseError
            ELSE ParseOk(FPrintNode(toks[i], tok = "-fprint0"), i + 1)
      [] tok = "-size" ->
            IF i > Len(toks) \/ peek(toks, i) = "" THEN ParseError
            ELSE size_node_of(size_bytes_from_spec(Chars(toks[i])), i + 1)
      [] tok = "-empty" -> ParseOk(EmptyNode, i)
      [] tok = "-prune" -> ParseOk(PruneNode, i)
      [] tok = "-quit" -> ParseOk(QuitNode, i)
      [] tok = "-delete" -> ParseOk(DeleteNode, i)
      [] tok \in {"-exec", "-execdir", "-ok", "-okdir"} ->
            parse_exec_args(toks, i, <<>>, tok)
      [] OTHER -> unknown_token(tok, i)

RECURSIVE parse_primary(_, _), parse_and_loop(_, _, _), parse_and(_, _),
          parse_comma_loop(_, _, _), parse_comma(_, _),
          parse_or_loop(_, _, _), parse_or(_, _)

\* an exhausted token stream taken for a parse error
no_operand_fails(i) == ParseError

\* parse_primary when tokens.peek() is None: the constant true, nothing consumed
no_operand(i) == ParseOk(BoolNode(TRUE), i)

parse_primary(toks, i) ==
    LET t == peek(toks, i)
    IN  IF i > Len(toks) THEN no_operand(i)
        ELSE IF t = "("
             THEN LET r == parse_or(toks, i + 1)
                  IN  IF ~r.ok THEN ParseError
                      ELSE IF r.i <= Len(toks) /\ peek(toks, r.i) = ")"
                           THEN ParseOk(r.node, r.i + 1)
                           ELSE ParseError
        ELSE IF t \in {"!", "-not"}
             THEN LET r == parse_primary(toks, i + 1)
                  IN  IF ~r.ok THEN ParseError ELSE ParseOk(NotNode(r.node), r.i)
        ELSE parse_test_or_action(toks, t, i + 1)

\* the while loop of parse_and, node being the expression parsed so far
parse_and_loop(toks, node, i) ==
    LET t == peek(toks, i)
    IN  IF i > Len(toks) \/ t \in {")", "-o", "-or", ","} THEN ParseOk(node, i)
        ELSE LET r == parse_primary(toks, IF t \in {"-a", "-and"} THEN i + 1 ELSE i)
             IN  IF ~r.ok THEN ParseError
                 ELSE parse_and_loop(toks, AndNode(node, r.node), r.i)

parse_and(toks, i) ==
    LET r == parse_primary(toks, i)
    IN  IF ~r.ok THEN ParseError ELSE parse_and_loop(toks, r.node, r.i)

parse_comma_loop(toks, node, i) ==
    IF i <= Len(toks) /\ peek(toks, i) = ","
    THEN LET r == parse_and(toks, i + 1)
         IN  IF ~r.ok THEN ParseError
             ELSE parse_comma_loop(toks, CommaNode(node, r.node), r.i)
    ELSE ParseOk(node, i)

parse_comma(toks, i) ==
    LET r == parse_and(toks, i)
    IN  IF ~r.ok THEN ParseError ELSE parse_comma_loop(toks, r.node, r.i)

parse_or_loop(toks, node, i) ==
    IF i <= Len(toks) /\ peek(toks, i) \in {"-o", "-or"}
    THEN LET r == parse_comma(toks, i + 1)
         IN  IF ~r.ok THEN ParseError
             ELSE parse_or_loop(toks, OrNode(node, r.node), r.i)
    ELSE ParseOk(node, i)

parse_or(toks, i) ==
    LET r == parse_comma(toks, i)
    IN  IF ~r.ok THEN ParseError ELSE parse_or_loop(toks, r.node, r.i)

parse_expression(toks) == parse_or(toks, 1)

(***************************************************************************)
(* Evaluation.  c is the part of the world an evaluation reads and writes: *)
(* the EvalContext fields quit, prune_flag, suppress, open_files, the      *)
(* filesystem (exists), the visible effects (out) and trace, the list of   *)
(* [pos, val] of the nodes evaluated so far in this evaluation, in order   *)
(* of return.  pos is the position of a node in the tree.  An evaluation   *)
(* returns [val, c].                                                       *)
(***************************************************************************)
Ret(c, pos, v) ==
    [val |-> v, c |-> [c EXCEPT !.trace = Append(@, [pos |-> pos, val |-> v])]]

\* eprint: one more message on stderr
eprint(e, msg, path) == Append(e, [msg |-> msg, path |-> path])

Effect(c, act, pos, path, arg) ==
    [c EXCEPT !.out = Append(@, [act |-> act, pos |-> pos, path |-> path, arg |-> arg])]

\* fnmatch.fnmatchcase for patterns without '?' and '[': a literal name or "*"
\* fnmatch on characters: * matches any run of characters, ? any one
RECURSIVE GlobMatch(_, _)
GlobMatch(n, p) ==
    IF p = <<>> THEN n = <<>>
    ELSE IF Head(p) = "*"
         THEN GlobMatch(n, Tail(p)) \/ (n # <<>> /\ GlobMatch(Tail(n), p))
    ELSE /\ n # <<>>
         /\ Head(p) = "?" \/ Head(p) = Head(n)
         /\ GlobMatch(Tail(n), Tail(p))

\* a comparison of the name with the pattern, character by character
fnmatchcase_literal(name, pat) == Chars(name) = Chars(pat)

fnmatchcase(name, pat) == GlobMatch(Chars(name), Chars(pat))

\* the letters a -type argument consists of
TypeLetters(types) ==
    CASE types = "f" -> {"f"}
      [] types = "d" -> {"d"}
      [] types = "l" -> {"l"}
      [] types = "fd" -> {"f", "d"}
      [] OTHER -> {}

EvalBool(node, pos, fi, c) == Ret(c, pos, node.value)

EvalName(node, pos, fi, c) == Ret(c, pos, fnmatchcase(fi.name, node.pattern))

EvalType(node, pos, fi, c) ==
    Ret(c, pos, \E t \in TypeLetters(node.types) :
                    \/ t = "f" /\ S_ISREG(fi.lstat)
                    \/ t = "d" /\ S_ISDIR(fi.lstat)
                    \/ t = "l" /\ S_ISLNK(fi.lstat))

EvalSize(node, pos, fi, c) ==
    Ret(c, pos, size_test(node.sign, node.n, node.mul, FS[fi.lstat].st_size))

\* EmptyNode.eval.  A directory is listed, PermissionError gives False; any
\* other entry is judged by st_size.  No expression of the model evaluates
\* -empty on a directory that -delete has just removed.
EvalEmpty(node, pos, fi, c) ==
    Ret(c, pos, IF S_ISDIR(fi.lstat)
                THEN fi.lstat \notin Unreadable /\ os_scandir(fi.path, c.exists) = {}
                ELSE FS[fi.lstat].st_size = 0)

EvalPrint(node, pos, fi, c) ==
    IF ~c.suppress
    THEN Ret(Effect(c, IF node.null THEN "print0" ELSE "print", pos, fi.path, <<>>),
             pos, TRUE)
    ELSE Ret(c, pos, TRUE)

\* EvalContext.get_output_file without the test of the handle map
get_output_file_always_opens(c, pos, path) ==
    [Effect(c, "open", pos, <<>>, <<<<path>>>>) EXCEPT !.open_files = @ \cup {path}]

\* EvalContext.get_output_file: open the file unless it is open already.
\* The mode of the handle is left out: no expression of the model writes one
\* file both with -fprint and with -fprint0.
get_output_file(c, pos, path) ==
    IF path \notin c.open_files
    THEN [Effect(c, "open", pos, <<>>, <<<<path>>>>) EXCEPT !.open_files = @ \cup {path}]
    ELSE c

EvalFPrint(node, pos, fi, c) ==
    IF ~c.suppress
    THEN Ret(Effect(get_output_file(c, pos, node.path),
                    IF node.null THEN "fprint0" ELSE "fprint", pos, fi.path,
                    <<<<node.path>>>>),
             pos, TRUE)
    ELSE Ret(c, pos, TRUE)

\* PruneNode.eval made an action that suppression turns off
EvalPrune_suppressible(node, pos, fi, c) ==
    IF c.suppress THEN Ret(c, pos, TRUE)
    ELSE Ret([c EXCEPT !.prune_flag = TRUE], pos, TRUE)

\* PruneNode.eval: the two statements of its body (find.py:636-637)
EvalPrune(node, pos, fi, c) == Ret([c EXCEPT !.prune_flag = TRUE], pos, TRUE)

EvalQuit(node, pos, fi, c) == Ret([c EXCEPT !.quit = TRUE], pos, TRUE)

\* DeleteNode.eval without the test of the suppression flag
EvalDelete_unsuppressed(node, pos, fi, c) ==
    LET ino == os_lstat(fi.path, c.exists)
    IN  IF ino # None /\ ~S_ISDIR(ino)
        THEN Ret([Effect(c, "delete", pos, fi.path, <<>>)
                     EXCEPT !.exists = @ \ {ino}], pos, TRUE)
        ELSE Ret(c, pos, FALSE)

\* DeleteNode.eval with a failed removal passed over in silence
EvalDelete_swallowing(node, pos, fi, c) ==
    IF c.suppress THEN Ret(c, pos, TRUE)
    ELSE LET ino == os_lstat(fi.path, c.exists)
         IN  IF ino # None /\ (S_ISDIR(ino) => os_scandir(fi.path, c.exists) = {})
             THEN Ret([Effect(c, "delete", pos, fi.path, <<>>)
                          EXCEPT !.exists = @ \ {ino}], pos, TRUE)
             ELSE Ret(c, pos, TRUE)

\* os.rmdir succeeds on an existing empty directory, os.remove on an existing
\* entry that is not a directory
EvalDelete(node, pos, fi, c) ==
    IF c.suppress THEN Ret(c, pos, TRUE)
    ELSE LET ino == os_lstat(fi.path, c.exists)
             removable ==
                 /\ ino # None
                 /\ IF S_ISDIR(fi.lstat)
                    THEN S_ISDIR(ino) /\ os_scandir(fi.path, c.exists) = {}
                    ELSE ~S_ISDIR(ino)
         IN  IF removable
             THEN Ret([Effect(c, "delete", pos, fi.path, <<>>)
                          EXCEPT !.exists = @ \ {ino}], pos, TRUE)
             ELSE Ret([c EXCEPT !.err = eprint(@, "failed to delete", fi.path)],
                      pos, FALSE)

\* ExecNode._build_cmd: a plain argument a is the one-component path <<a>>
RECURSIVE build_cmd_loop(_, _)
build_cmd_loop(argv, path) ==
    IF argv = <<>> THEN <<>>
    ELSE <<IF Head(argv) = "{}" THEN path ELSE <<Head(argv)>>>>
         \o build_cmd_loop(Tail(argv), path)

\* ExecNode._build_cmd with the arguments taken as they are
build_cmd_unreplaced(argv, path) ==
    Append([k \in 1..Len(argv) |-> <<argv[k]>>], path)

build_cmd(argv, path) ==
    IF \E k \in 1..Len(argv) : argv[k] = "{}"
    THEN build_cmd_loop(argv, path)
    ELSE Append(build_cmd_loop(argv, path), path)

\* subprocess.run: the exit status of the command, None when the
\* executable is not found
returncode(cmd) ==
    CASE cmd[1] = <<"true">> -> 0
      [] cmd[1] = <<"false">> -> 1
      [] OTHER -> None

\* sys.stdin.readline() after the prompt of -ok/-okdir: the user declines
\* the command for r/a and accepts every other one
stdin_readline(cmd) ==
    IF cmd[Len(cmd)] = <<"r", "a">> THEN "n" ELSE "y"

\* ExecNode._run started in c
run(node, cmd, pos, fi, c) ==
    IF node.prompt /\ stdin_readline(cmd) # "y" THEN Ret(c, pos, FALSE)
    ELSE IF returncode(cmd) = None
         THEN Ret([c EXCEPT !.err = eprint(@, "command not found", cmd[1])],
                  pos, FALSE)
         ELSE Ret(Effect(c, "exec", pos, fi.path, cmd), pos, returncode(cmd) = 0)

EvalExec(node, pos, fi, c) ==
    IF c.suppress THEN Ret(c, pos, TRUE)
    ELSE run(node, build_cmd(node.argv, fi.path), pos, fi,
             IF node.prompt
             THEN Effect(c, "prompt", pos, fi.path, build_cmd(node.argv, fi.path))
             ELSE c)

RECURSIVE eval(_, _, _, _), EvalNot(_, _, _, _), EvalAnd(_, _, _, _),
          EvalOr(_, _, _, _), EvalComma(_, _, _, _),
          EvalAnd_eager(_, _, _, _), EvalComma_chained(_, _, _, _),
          EvalAnd_stops_on_quit(_, _, _, _)

EvalNot(node, pos, fi, c) ==
    LET r == eval(node.child, Append(pos, "child"), fi, c)
    IN  Ret(r.c, pos, ~r.val)

\* AndNode.eval without the early return
EvalAnd_eager(node, pos, fi, c) ==
    LET l == eval(node.left, Append(pos, "left"), fi, c)
        r == eval(node.right, Append(pos, "right"), fi, l.c)
    IN  Ret(r.c, pos, l.val /\ r.val)

\* AndNode.eval with the quit flag taken as a reason to return
EvalAnd_stops_on_quit(node, pos, fi, c) ==
    LET l == eval(node.left, Append(pos, "left"), fi, c)
    IN  IF ~l.val \/ l.c.quit THEN Ret(l.c, pos, l.val)
        ELSE LET r == eval(node.right, Append(pos, "right"), fi, l.c)
             IN  Ret(r.c, pos, r.val)

EvalAnd(node, pos, fi, c) ==
    LET l == eval(node.left, Append(pos, "left"), fi, c)
    IN  IF ~l.val THEN Ret(l.c, pos, FALSE)
        ELSE LET r == eval(node.right, Append(pos, "right"), fi, l.c)
             IN  Ret(r.c, pos, r.val)

EvalOr(node, pos, fi, c) ==
    LET l == eval(node.left, Append(pos, "left"), fi, c)
    IN  IF l.val THEN Ret(l.c, pos, TRUE)
        ELSE LET r == eval(node.right, Append(pos, "right"), fi, l.c)
             IN  Ret(r.c, pos, r.val)

\* CommaNode.eval with the early return of AndNode.eval
EvalComma_chained(node, pos, fi, c) ==
    LET l == eval(node.left, Append(pos, "left"), fi, c)
    IN  IF ~l.val THEN Ret(l.c, pos, FALSE)
        ELSE LET r == eval(node.right, Append(pos, "right"), fi, l.c)
             IN  Ret(r.c, pos, r.val)

EvalComma(node, pos, fi, c) ==
    LET l == eval(node.left, Append(pos, "left"), fi, c)
        r == eval(node.right, Append(pos, "right"), fi, l.c)
    IN  Ret(r.c, pos, r.val)

\* Node.eval, dispatched on the class of the node
eval(node, pos, fi, c) ==
    CASE node.op = "bool" -> EvalBool(node, pos, fi, c)
      [] node.op = "not" -> EvalNot(node, pos, fi, c)
      [] node.op = "and" -> EvalAnd(node, pos, fi, c)
      [] node.op = "or" -> EvalOr(node, pos, fi, c)
      [] node.op = "comma" -> EvalComma(node, pos, fi, c)
      [] node.op = "name" -> EvalName(node, pos, fi, c)
      [] node.op = "type" -> EvalType(node, pos, fi, c)
      [] node.op = "size" -> EvalSize(node, pos, fi, c)
      [] node.op = "empty" -> EvalEmpty(node, pos, fi, c)
      [] node.op = "print" -> EvalPrint(node, pos, fi, c)
      [] node.op = "fprint" -> EvalFPrint(node, pos, fi, c)
      [] node.op = "prune" -> EvalPrune(node, pos, fi, c)
      [] node.op = "quit" -> EvalQuit(node, pos, fi, c)
      [] node.op = "delete" -> EvalDelete(node, pos, fi, c)
      [] node.op = "exec" -> EvalExec(node, pos, fi, c)

(***************************************************************************)
(* traverse and walk.  A frame of stack is one activation of walk: frames  *)
(* in phase "enter" have not started, frames in phase "children" are in    *)
(* (or past) the loop over entries, the entries not walked yet.            *)
(* os.scandir yields the entries of a directory in no particular order.    *)
(***************************************************************************)
Top == stack[Len(stack)]
Pop == SubSeq(stack, 1, Len(stack) - 1)

Frame(path, depth) ==
    [path |-> path, depth |-> depth, phase |-> "enter", entries |-> {},
     listed |-> FALSE, is_dir |-> FALSE, lst |-> None, st |-> None]

FileInfo(path, depth, lst, st) ==
    [path |-> path, name |-> path[Len(path)], depth |-> depth, lstat |-> lst,
     stat |-> IF st = None THEN lst ELSE st,
     is_dir |-> S_ISDIR(lst), is_symlink |-> S_ISLNK(lst)]

Ctx == [quit |-> quit, prune_flag |-> prune_flag, suppress |-> suppress,
        open_files |-> open_files, exists |-> exists, out |-> out, err |-> err,
        trace |-> <<>>]

\* EvalContext.close: the handles its loop closes
closed_by_close(files) == files

\* EvalContext.close left out of the finally clause
close_nothing(files) == files

\* EvalContext.close: the map after its clear()
close(files) == {}

\* walk without the check at its head
walk_never_returns_at_once(q) == FALSE

\* the check at the head of walk
walk_returns_at_once(q) == q

\* the suppression walk stores on the context
suppress_of(o, depth) ==
    (o.maxdepth # None /\ depth > o.maxdepth) \/ (depth < o.mindepth)

\* a pre-order evaluation in both modes
pre_order_always(o, is_dir) == TRUE

\* the condition of the pre-order evaluation
pre_order(o, is_dir) == ~o.depth_first \/ ~is_dir

\* the condition of the post-order evaluation without the test of is_dir
post_order_any(o, is_dir, q) == o.depth_first /\ ~q

\* a post-order evaluation of directories with and without -depth
post_order_in_both_modes(o, is_dir, q) == is_dir /\ ~q

\* the condition of the post-order evaluation
post_order(o, is_dir, q) == o.depth_first /\ is_dir /\ ~q

\* the prune flag left as the evaluation before set it
keep_prune_flag(flag) == flag

\* the prune flag an evaluation starts with
reset_prune_flag(flag) == FALSE

prune_here_of(flag, is_dir) == flag /\ is_dir

\* prune_here taken from the flag the last evaluation left
prune_here_left_over(flag) == flag

\* prune_here of an entry that is not evaluated in pre-order
prune_here_unset(flag) == FALSE

\* do_recurse without the adjustment for the mount restriction
do_recurse_of_crossing(o, is_dir, prune_here, depth, lst, sdev, visited) ==
    /\ is_dir /\ ~prune_here
    /\ ~(o.maxdepth # None /\ depth >= o.maxdepth)
    /\ ~(is_dir /\ o.follow = "L" /\ <<FS[lst].st_dev, lst>> \in visited)

\* do_recurse with a directory at maxdepth still listed
do_recurse_of_one_deeper(o, is_dir, prune_here, depth, lst, sdev, visited) ==
    /\ is_dir /\ ~prune_here
    /\ ~(o.maxdepth # None /\ depth > o.maxdepth)
    /\ ~(o.mount /\ is_dir /\ FS[lst].st_dev # sdev)
    /\ ~(is_dir /\ o.follow = "L" /\ <<FS[lst].st_dev, lst>> \in visited)

\* do_recurse after the maxdepth, mount and visited_dirs adjustments
do_recurse_of(o, is_dir, prune_here, depth, lst, sdev, visited) ==
    /\ is_dir /\ ~prune_here
    /\ ~(o.maxdepth # None /\ depth >= o.maxdepth)
    /\ ~(o.mount /\ is_dir /\ FS[lst].st_dev # sdev)
    /\ ~(is_dir /\ o.follow = "L" /\ <<FS[lst].st_dev, lst>> \in visited)

\* the bookkeeping of one evaluation of the expression by walk: r is the
\* result of expr.eval(fi, ctx) started in c
EvaluationOf(fi, c, order, r) ==
    [val |-> r.val, c |-> r.c,
     rec |-> [path |-> fi.path, depth |-> fi.depth, is_dir |-> fi.is_dir,
              order |-> order, suppress |-> c.suppress, val |-> r.val,
              prune_flag |-> r.c.prune_flag, quit |-> r.c.quit,
              trace |-> r.c.trace,
              effects |-> SubSeq(r.c.out, Len(c.out) + 1, Len(r.c.out)),
              reports |-> SubSeq(r.c.err, Len(c.err) + 1, Len(r.c.err)),
              before |-> c.exists,
              files |-> c.open_files,
              removed |-> c.exists \ r.c.exists,
              opened |-> r.c.open_files \ c.open_files]]

Evaluation(fi, c, order) == EvaluationOf(fi, c, order, eval(expr, <<>>, fi, c))

SetCtx(c) ==
    /\ quit' = c.quit
    /\ prune_flag' = c.prune_flag
    /\ suppress' = c.suppress
    /\ open_files' = c.open_files
    /\ exists' = c.exists
    /\ out' = c.out
    /\ err' = c.err

\* main up to the call of traverse: the default expression or parse_expression
MainParse ==
    /\ pc = "parse"
    /\ LET r == parse_expression(tokens)
       IN  IF argv_empty \/ tokens = <<>>
           THEN /\ expr' = PrintNode(FALSE)
                /\ pc' = "traverse"
                /\ UNCHANGED <<status, err>>
           ELSE IF r.ok
                THEN /\ expr' = r.node
                     /\ pc' = "traverse"
                     /\ UNCHANGED <<status, err>>
                ELSE /\ expr' = expr
                     /\ pc' = "exit"
                     /\ err' = eprint(err, "parse error", <<>>)
                     /\ status' = 1
    /\ UNCHANGED <<tokens, opts, paths, ri, stack, start_dev, visited_dirs, quit,
                   prune_flag, suppress, open_files, closed, total_matches, exists,
                   out, evals>>
    /\ UNCHANGED invocation

\* one iteration of `for start in paths` up to the call walk(start, 0)
StartRoot ==
    /\ pc = "traverse" /\ stack = <<>> /\ ri <= Len(paths)
    /\ LET start == <<paths[ri]>>
           gs == get_stats(start, opts.follow = "L" \/ opts.follow = "H", exists)
       IN  IF gs.lst = None
           THEN /\ err' = eprint(err, "No such file or directory", start)
                /\ UNCHANGED <<stack, start_dev, visited_dirs>>
           ELSE /\ start_dev' = FS[gs.lst].st_dev
                /\ visited_dirs' = {}
                /\ stack' = <<Frame(start, 0)>>
                /\ err' = err
    /\ ri' = ri + 1
    /\ UNCHANGED <<pc, tokens, expr, opts, paths, quit, prune_flag, suppress,
                   open_files, closed, total_matches, exists, out, evals, status>>
    /\ UNCHANGED invocation

\* walk after its evaluation in pre-order: the decision to recurse and the
\* listing of the directory; c is the context after the evaluation
WalkList(fr, gs, c, do_recurse) ==
    /\ SetCtx(c)
    /\ visited_dirs' = IF S_ISDIR(gs.lst) /\ opts.follow = "L"
                       THEN visited_dirs \cup {<<FS[gs.lst].st_dev, gs.lst>>}
                       ELSE visited_dirs
    /\ IF do_recurse /\ ~c.quit /\ os_lstat(fr.path, c.exists) = None
       THEN \* FileNotFoundError leaves traverse through its finally clause
            \* and is not caught by main
            /\ stack' = <<>>
            /\ pc' = "crash"
            /\ status' = 1
       ELSE /\ stack' = [stack EXCEPT ![Len(stack)] =
                   [fr EXCEPT !.phase = "children", !.is_dir = S_ISDIR(gs.lst),
                              !.lst = gs.lst, !.st = gs.st,
                              !.listed = do_recurse /\ ~c.quit,
                              !.entries = IF do_recurse /\ ~c.quit
                                             /\ gs.lst \notin Unreadable
                                          THEN os_scandir(fr.path, c.exists)
                                          ELSE {}]]
            /\ UNCHANGED <<pc, status>>

\* walk with the evaluation in pre-order, ev
WalkPre(fr, gs, ev) ==
    /\ evals' = Append(evals, ev.rec)
    /\ total_matches' = IF ev.val THEN total_matches + 1 ELSE total_matches
    /\ WalkList(fr, gs, ev.c,
                do_recurse_of(opts, S_ISDIR(gs.lst),
                              prune_here_of(ev.c.prune_flag, S_ISDIR(gs.lst)),
                              fr.depth, gs.lst, start_dev, visited_dirs))

\* walk from the stat of the entry on, c being the context with the
\* suppression of the entry stored
WalkStat(fr, gs, c) ==
    IF pre_order(opts, S_ISDIR(gs.lst))
    THEN \E fi \in {FileInfo(fr.path, fr.depth, gs.lst, gs.st)} :
         \E c0 \in {[c EXCEPT !.prune_flag = reset_prune_flag(@)]} :
         \E ev \in {Evaluation(fi, c0, "pre")} :
            WalkPre(fr, gs, ev)
    ELSE /\ UNCHANGED <<evals, total_matches>>
         /\ WalkList(fr, gs, c,
                     do_recurse_of(opts, S_ISDIR(gs.lst),
                                   prune_here_unset(c.prune_flag), fr.depth,
                                   gs.lst, start_dev, visited_dirs))

\* walk from its entry to the listing of the directory
WalkEnter ==
    /\ pc = "traverse" /\ stack # <<>> /\ Top.phase = "enter"
    /\ \E gs \in {get_stats(Top.path, opts.follow = "L", exists)} :
          IF walk_returns_at_once(quit) \/ gs.lst = None
          THEN /\ stack' = Pop
               /\ UNCHANGED <<pc, visited_dirs, quit, prune_flag, suppress,
                              open_files, total_matches, exists, out, err, evals,
                              status>>
          ELSE \E c \in {[Ctx EXCEPT !.suppress = suppress_of(opts, Top.depth)]} :
                  WalkStat(Top, gs, c)
    /\ UNCHANGED <<tokens, expr, opts, paths, ri, start_dev, closed>>
    /\ UNCHANGED invocation

\* one iteration of `for entry in entries`: the call walk(child_path, depth + 1)
WalkChild ==
    /\ pc = "traverse" /\ stack # <<>> /\ Top.phase = "children"
    /\ Top.entries # {} /\ ~quit
    /\ \E name \in Top.entries :
          stack' = Append([stack EXCEPT ![Len(stack)].entries = @ \ {name}],
                          Frame(Append(Top.path, name), Top.depth + 1))
    /\ UNCHANGED <<pc, tokens, expr, opts, paths, ri, start_dev, visited_dirs,
                   quit, prune_flag, suppress, open_files, closed, total_matches,
                   exists, out, err, evals, status>>
    /\ UNCHANGED invocation

\* the post-order evaluation ev
WalkPostEval(ev) ==
    /\ SetCtx(ev.c)
    /\ evals' = Append(evals, ev.rec)
    /\ total_matches' = IF ev.val THEN total_matches + 1 ELSE total_matches

\* the end of walk: the post-order evaluation and the return
WalkPost ==
    /\ pc = "traverse" /\ stack # <<>> /\ Top.phase = "children"
    /\ Top.entries = {} \/ quit
    /\ IF post_order(opts, Top.is_dir, quit)
       THEN \E fi \in {FileInfo(Top.path, Top.depth, Top.lst, Top.st)} :
            \E c \in {[Ctx EXCEPT !.prune_flag = reset_prune_flag(@)]} :
            \E ev \in {Evaluation(fi, c, "post")} :
               WalkPostEval(ev)
       ELSE UNCHANGED <<quit, prune_flag, suppress, open_files, exists, out, err,
                        evals, total_matches>>
    /\ stack' = Pop
    /\ UNCHANGED <<pc, tokens, expr, opts, paths, ri, start_dev, visited_dirs,
                   closed, status>>
    /\ UNCHANGED invocation

\* a loop over the start paths that finds no end
paths_never_exhausted(i, ps) == FALSE

\* the end of `for start in paths`
paths_exhausted(i, ps) == i > Len(ps)

\* the finally clause of traverse (ctx.close()) and the return of main
Finish ==
    /\ pc \in {"traverse", "crash"} /\ stack = <<>>
    /\ pc = "traverse" => paths_exhausted(ri, paths)
    /\ open_files' = close(open_files)
    /\ closed' = closed \cup closed_by_close(open_files)
    /\ pc' = "exit"
    /\ status' = IF pc = "crash" THEN status ELSE 0
    /\ UNCHANGED <<tokens, expr, opts, paths, ri, stack, start_dev, visited_dirs,
                   quit, prune_flag, suppress, total_matches, exists, out, err,
                   evals>>
    /\ UNCHANGED invocation

\* the ways the interpreter ends on a KeyboardInterrupt that main lets
\* through: exit status 1 after the traceback, or (Python 3.8 and later) the
\* traceback and death by SIGINT, written as the negated signal number
UncaughtInterrupt == {1, -2}

\* a KeyboardInterrupt raised while traverse runs: the finally clause of
\* traverse, then the except clause of main, which the call of traverse for
\* an empty argument list is not under
Interrupt ==
    /\ pc = "traverse"
    /\ open_files' = close(open_files)
    /\ closed' = closed \cup closed_by_close(open_files)
    /\ stack' = <<>>
    /\ pc' = "exit"
    /\ status' \in IF argv_empty THEN UncaughtInterrupt ELSE {130}
    /\ UNCHANGED <<tokens, expr, opts, paths, ri, start_dev, visited_dirs, quit,
                   prune_flag, suppress, total_matches, exists, out, err, evals>>
    /\ UNCHANGED invocation

Next ==
    MainParse \/ StartRoot \/ WalkEnter \/ WalkChild \/ WalkPost \/ Finish
    \/ Interrupt

(***************************************************************************)
(* Initial states: the command lines main is started with.                 *)
(***************************************************************************)
OptionSets ==
    [follow : {"P", "L", "H"}, depth_first : BOOLEAN,
     maxdepth : {None} \cup 0..MaxMaxDepth, mindepth : 0..MaxMinDepth,
     mount : BOOLEAN]

\* Options(): the defaults
DefaultOptions ==
    [follow |-> "P", depth_first |-> FALSE, maxdepth |-> None, mindepth |-> 0,
     mount |-> FALSE]

\* start paths: x does not exist
PathLists == {<<"r">>, <<"r", "f">>, <<"x", "r">>, <<"s">>, <<"u", "x", "f">>}

\* expressions for the traversal
TokenLists ==
    { <<>>,
      <<"-print">>,
      <<"-false", "-a", "-print">>,
      <<"-true", "-o", "-print">>,
      <<"-type", "d", "-print">>,
      <<"-print", ",", "-false">>,
      <<"-false", ",", "-print">>,
      <<"-name", "d", "-prune", "-o", "-print">>,
      <<"-print", "-name", "d", "-quit">>,
      <<"-quit", "-print">>,
      <<"-type", "f", "-fprint", "o", "-delete">>,
      <<"-exec", "false", "{}", ";", "-o", "-exec", "true", ";", "-print">>,
      <<"!", "-type", "d", "-exec", "nocmd", ";", ",", "-delete">>,
      <<"(", "-type", "d", "-prune", ")", "-fprint0", "o">>,
      <<"(", "-print">>,
      <<"-bogus">>,
      <<"-fprint", "o", "-fprint", "o", "-delete">>,
      <<"-fprint", "o", "-name", "a", "-quit">>,
      <<"-delete", "-delete">>,
      <<"-ok", "true", "{}", ";", "-print">> }

\* expressions that end in a test or action without its argument or in a
\* token that is no test and no action
MalformedTokenLists ==
    {prefix \o <<bad>> :
        prefix \in {<<>>, <<"-delete">>, <<"-delete", "-a">>, <<"-print", "-o">>,
                    <<"(">>, <<"!">>, <<"-fprint", "o", ",">>},
        bad \in {"-name", "-type", "-size", "-fprint", "-fprint0", "-bogus"}}

\* the state of a process about to run from position start in directory dir
InitAt(start, dir, empty, inp, toks, o, ps) ==
    /\ cwd = dir
    /\ argv_empty = empty
    /\ input = inp
    /\ result = None
    /\ stdout = <<>>
    /\ pc = start
    /\ tokens = toks
    /\ expr = BoolNode(TRUE)
    /\ opts = o
    /\ paths = ps
    /\ ri = 1
    /\ stack = <<>>
    /\ start_dev = None
    /\ visited_dirs = {}
    /\ quit = FALSE
    /\ prune_flag = FALSE
    /\ suppress = FALSE
    /\ open_files = {}
    /\ closed = {}
    /\ total_matches = 0
    /\ exists = Inodes
    /\ out = <<>>
    /\ err = <<>>
    /\ evals = <<>>
    /\ status = None

\* main(argv) called in directory dir; empty tells that argv is empty
InitIn(dir, empty, toks, o, ps) == InitAt("parse", dir, empty, None, toks, o, ps)

InitWith(toks, o, ps) == InitIn(Cwd, FALSE, toks, o, ps)

\* expressions of tests on the size, the contents and the type of an entry
TestLists ==
    { <<"-empty">>,
      <<"-type", "d", "-empty">>,
      <<"-empty", "-type", "f">>,
      <<"-type", "f", "-name", "*.txt">>,
      <<"-name", "?.log", "-o", "-size", "1k">>,
      <<"-size", "0k", "-print">>,
      <<"-size", "+1c", "-o", "-size", "-1">>,
      <<"-type", "f", "-prune", "-o", "-print">>,
      <<"-false", "-o">>,
      <<"!">>,
      <<"-print", "-not">>,
      <<"-type", "d", "-a">>,
      <<"-false", ",">> }

\* the command lines: every expression on r under every depth option, three
\* expressions under every option and list of start paths, and the tests and
\* the expressions that end in an operator in both orders of evaluation on
\* files of every kind
Commands ==
    ((TokenLists \cup MalformedTokenLists)
        \X {o \in OptionSets : o.follow = "P" /\ ~o.mount}
        \X {<<"r">>})
    \cup
    ({<<"-print">>, <<"-print", "-name", "d", "-quit">>,
      <<"-name", "d", "-prune", "-o", "-print">>}
        \X OptionSets \X PathLists)
    \cup
    (TestLists
        \X {DefaultOptions, [DefaultOptions EXCEPT !.depth_first = TRUE]}
        \X {<<"root">>, <<"k", "u", "f">>, <<"r">>})

\* main([]) started in the directory root: paths = ['.'], expr = PrintNode()
InitEmptyArgv == InitIn(11, TRUE, <<>>, DefaultOptions, <<".">>)

Init ==
    \/ \E cmd \in Commands : InitWith(cmd[1], cmd[2], cmd[3])
    \/ InitEmptyArgv

Spec == Init /\ [][Next]_vars

(***************************************************************************)
(* The traversal as a running process.  main is one thread: whichever of   *)
(* its steps is possible is taken in the end, so every step of main and    *)
(* traverse is weakly fair.  An interrupt comes from outside and may never *)
(* come.  The command lines are the three follow modes in both orders of   *)
(* evaluation on start paths with symlinks: s leads to r, k/c to k itself. *)
(* One expression visits every entry, the other sets the quit flag on k/c. *)
(***************************************************************************)
LiveCommands ==
    {<<"-print">>, <<"-name", "c", "-quit">>}
        \X {o \in OptionSets : o.maxdepth = None /\ o.mindepth = 0 /\ ~o.mount}
        \X {<<"k">>, <<"s", "k">>}

InitLive == \E cmd \in LiveCommands : InitWith(cmd[1], cmd[2], cmd[3])

SpecLive ==
    /\ InitLive
    /\ [][Next]_vars
    /\ WF_vars(MainParse)
    /\ WF_vars(StartRoot)
    /\ WF_vars(WalkEnter)
    /\ WF_vars(WalkChild)
    /\ WF_vars(WalkPost)
    /\ WF_vars(Finish)

(***************************************************************************)
(* The parser on its own: every token list of at most MaxTokens tokens.    *)
(***************************************************************************)
MaxTokens == 5

Alphabet == {"-true", "-false", "-print", "-a", "-o", ",", "(", ")", "!"}

ParserInputs == UNION {[1..n -> Alphabet] : n \in 0..MaxTokens}

InitParse ==
    \E toks \in ParserInputs :
        InitWith(toks, [follow |-> "P", depth_first |-> FALSE, maxdepth |-> None,
                        mindepth |-> 0, mount |-> FALSE], <<"r">>)

NextParse == MainParse

SpecParse == InitParse /\ [][NextParse]_vars

(***************************************************************************)
(* The parser on expressions with -exec: every list of one to              *)
(* MaxExecTokens tokens of ExecAlphabet.                                   *)
(***************************************************************************)
MaxExecTokens == 4

ExecAlphabet == {"-exec", "-okdir", ";", "+", "(", ")", "-o", ",", "-print"}

ExecInputs == UNION {[1..n -> ExecAlphabet] : n \in 1..MaxExecTokens}

InitExec ==
    \E toks \in ExecInputs :
        InitWith(toks, [follow |-> "P", depth_first |-> FALSE, maxdepth |-> None,
                        mindepth |-> 0, mount |-> FALSE], <<"r">>)

SpecExec == InitExec /\ [][NextParse]_vars

(***************************************************************************)
(* -size on its own: SizeNode(spec) built from an argument and evaluated   *)
(* on a file of a given size.  The arguments are a sign or none, up to     *)
(* MaxDigits digits and a suffix or none; x is no suffix of -size.         *)
(***************************************************************************)
MaxDigits == 2

SizeSigns == {<<>>, <<"+">>, <<"-">>}
SizeNumbers == UNION {[1..n -> {"0", "1", "2"}] : n \in 0..MaxDigits}
SizeSuffixes == {<<>>, <<"b">>, <<"c">>, <<"w">>, <<"k">>, <<"M">>, <<"G">>, <<"x">>}

SizeSpecs == {s \o n \o u : s \in SizeSigns, n \in SizeNumbers, u \in SizeSuffixes}

\* st_size of the file: the sizes around the multiples of every unit
FileSizes ==
    0..25 \cup {511, 512, 513, 1023, 1024, 1025, 2047, 2048, 2049, 1048575, 1048576,
               1048577, 2097152, 2097153, 1073741823, 1073741824}

InitSize ==
    \E spec \in SizeSpecs, size \in FileSizes :
        InitAt("size", Cwd, FALSE, [spec |-> spec, size |-> size], <<>>,
               DefaultOptions, <<>>)

\* SizeNode(spec) and its eval: ok = FALSE is the ValueError of the constructor
SizeEval ==
    /\ pc = "size"
    /\ LET r == size_bytes_from_spec(input.spec)
       IN  result' = [ok |-> r.ok, node |-> SizeNode(r),
                      val |-> r.ok /\ size_test(r.sign, r.n, r.mul, input.size)]
    /\ pc' = "exit"
    /\ UNCHANGED <<tokens, expr, opts, paths, ri, stack, start_dev, visited_dirs,
                   quit, prune_flag, suppress, open_files, closed, total_matches,
                   exists, out, err, evals, status, cwd, argv_empty, input,
                   stdout>>

NextSize == SizeEval

SpecSize == InitSize /\ [][NextSize]_vars

(***************************************************************************)
(* findlike (src/src/findlike/core.py): search and _walk_root.  The        *)
(* variables are those of main above: opts holds the Options, paths the    *)
(* roots, ri the index of the next root, stack the stack of _walk_root     *)
(* (one frame per open directory iterator: its path, its depth and the     *)
(* names the iterator has not yielded yet), out the paths yielded so far   *)
(* and err the messages on stderr.  An absent name, iname or type is the   *)
(* string "" (the code tests name and iname for truth), an absent size is  *)
(* NoSize.                                                                 *)
(***************************************************************************)
NoSize == [op |-> "none", ref |-> 0]

FlatDefaults ==
    [name |-> "", iname |-> "", type |-> "", maxdepth |-> None, mindepth |-> 0,
     follow_symlinks |-> FALSE, empty |-> FALSE, size |-> NoSize,
     ignore_hidden |-> FALSE, exclude |-> {}, exclude_dir |-> {}, quiet |-> FALSE]

is_hidden(name) == Chars(name)[1] = "." /\ name \notin {".", ".."}

\* str.lower on the characters of the model
lower(cs) ==
    [i \in 1..Len(cs) |->
        CASE cs[i] = "A" -> "a" [] cs[i] = "D" -> "d" [] cs[i] = "T" -> "t"
          [] cs[i] = "B" -> "b" [] cs[i] = "K" -> "k" [] cs[i] = "M" -> "m"
          [] cs[i] = "G" -> "g"
          [] OTHER -> cs[i]]

(***************************************************************************)
(* parse_size.  A Python int has no width: a number of bytes is kept as    *)
(* its digits in base 1024, the lowest first, and 0 as the empty sequence. *)
(* A result with ok = FALSE models a raised ValueError.                    *)
(***************************************************************************)
RECURSIVE Base1024(_)
Base1024(n) == IF n = 0 THEN <<>> ELSE <<n % 1024>> \o Base1024(n \div 1024)

isdigit(ch) == ch \in Digits
isnotdigit(ch) == ch \notin Digits

SizeValueError == [ok |-> FALSE, op |-> "eq", bytes |-> <<>>]

\* the units with t no larger than g
pow_map_without_t(unit) ==
    CASE unit = "b" -> 0 [] unit = "k" -> 1 [] unit = "m" -> 2 [] unit = "g" -> 3
      [] unit = "t" -> 3

\* pow_map: the power of 1024 a unit stands for
pow_map(unit) ==
    CASE unit = "b" -> 0 [] unit = "k" -> 1 [] unit = "m" -> 2 [] unit = "g" -> 3
      [] unit = "t" -> 4

\* num * pow_map[unit]
times_unit(num, unit) ==
    IF num = 0 THEN <<>> ELSE [i \in 1..pow_map(unit) |-> 0] \o Base1024(num)

\* parse_size from the lookup of the unit on
parse_size_unit(op, num, unit) ==
    IF Len(unit) # 1 \/ unit[1] \notin {"b", "k", "m", "g", "t"}
    THEN SizeValueError
    ELSE [ok |-> TRUE, op |-> op, bytes |-> times_unit(num, unit[1])]

\* parse_size after its loop over the characters
parse_size_parts(op, num_part, unit_part) ==
    IF num_part = <<>> THEN SizeValueError
    ELSE parse_size_unit(op, int(num_part),
                         IF unit_part # <<>> THEN lower(unit_part) ELSE <<"b">>)

\* parse_size after the sign
parse_size_number(op, text) ==
    IF text = <<>> THEN SizeValueError
    ELSE parse_size_parts(op, SelectSeq(text, isdigit), SelectSeq(text, isnotdigit))

parse_size(text) ==
    IF text = <<>> THEN SizeValueError
    ELSE IF text[1] \in {"+", "-"}
         THEN parse_size_number(IF text[1] = "+" THEN "gt" ELSE "lt", Tail(text))
         ELSE parse_size_number("eq", text)

match_name(name, pattern, case_insensitive) ==
    IF pattern = "" THEN TRUE
    ELSE IF case_insensitive
         THEN GlobMatch(lower(Chars(name)), lower(Chars(pattern)))
         ELSE GlobMatch(Chars(name), Chars(pattern))

\* the symlinks of a chain: those followed from ino to the end of the chain
RECURSIVE chain_length(_, _)
chain_length(ino, ex) ==
    IF ino = None \/ ino \notin ex \/ ~S_ISLNK(ino) THEN 0
    ELSE 1 + chain_length(FS[ino].target, ex)

\* the symlinks that the resolution of path from dir follows, the one the
\* path may end in included
RECURSIVE followed(_, _, _)
followed(dir, path, ex) ==
    IF dir = None THEN 0
    ELSE IF Len(path) = 1 THEN chain_length(Child(dir, path[1], ex), ex)
    ELSE CHOOSE n \in
             {chain_length(c, ex) + followed(Deref(c, ex), Tail(path), ex) :
                  c \in {Child(dir, path[1], ex)}} : TRUE

\* the symlinks the system follows in the resolution of one path before it
\* gives up with ELOOP (40 on Linux)
SymloopMax == 2

\* a system that follows any number of symlinks
no_eloop(path, ex) == FALSE

\* os.stat(path) raises OSError with errno ELOOP
eloop(path, ex) == followed(cwd, path, ex) > SymloopMax

\* the methods of os.DirEntry for the entry at path; _walk_root takes an
\* OSError of is_dir for False
entry_is_dir(path, follow_symlinks, ex) ==
    LET i == IF follow_symlinks THEN os_stat(path, ex) ELSE os_lstat(path, ex)
    IN  /\ ~(follow_symlinks /\ eloop(path, ex))
        /\ i # None /\ S_ISDIR(i)

entry_is_file(path, follow_symlinks, ex) ==
    LET i == IF follow_symlinks THEN os_stat(path, ex) ELSE os_lstat(path, ex)
    IN  i # None /\ S_ISREG(i)

entry_is_symlink(path, ex) ==
    LET i == os_lstat(path, ex) IN i # None /\ S_ISLNK(i)

match_type(path, t, ex) ==
    CASE t = "l" -> entry_is_symlink(path, ex)
      [] t = "d" -> entry_is_dir(path, FALSE, ex)
      [] t = "f" -> entry_is_file(path, FALSE, ex)
      [] OTHER -> FALSE

\* _match_empty for an entry of os.scandir
match_empty(path, ex) ==
    IF entry_is_dir(path, FALSE, ex)
    THEN os_lstat(path, ex) \notin Unreadable /\ os_scandir(path, ex) = {}
    ELSE IF entry_is_file(path, FALSE, ex) THEN FS[os_lstat(path, ex)].st_size = 0
    ELSE IF entry_is_symlink(path, ex) THEN os_stat(path, ex) = None
    ELSE FALSE

match_size(path, op_and_bytes, ex) ==
    LET size == FS[os_lstat(path, ex)].st_size
    IN  CASE op_and_bytes.op = "none" -> TRUE
          [] op_and_bytes.op = "eq" -> size = op_and_bytes.ref
          [] op_and_bytes.op = "lt" -> size < op_and_bytes.ref
          [] op_and_bytes.op = "gt" -> size > op_and_bytes.ref
          [] OTHER -> FALSE

should_exclude(name, patterns) ==
    \E pat \in patterns : GlobMatch(Chars(name), Chars(pat))

\* the tests of _matches_for_path before the one of -empty
matches_name_and_type(path, o, ex) ==
    /\ o.name # "" => match_name(path[Len(path)], o.name, FALSE)
    /\ o.iname # "" => match_name(path[Len(path)], o.iname, TRUE)
    /\ o.type # "" => match_type(path, o.type, ex)

\* _matches_for_path; entry is "None" for a root that is a directory,
\* "dummy" for the object of _direntry_for_path and "entry" for an entry of
\* os.scandir
matches_for_path(path, entry, o, ex) ==
    /\ matches_name_and_type(path, o, ex)
    /\ o.empty =>
          IF entry = "None"
          THEN os_lstat(path, ex) \notin Unreadable /\ os_scandir(path, ex) = {}
          ELSE match_empty(path, ex)
    /\ match_size(path, o.size, ex)

\* the object of _direntry_for_path has no method stat: _match_empty raises
\* AttributeError for a root that is a regular file
matches_raises(path, entry, o, ex) ==
    /\ entry = "dummy"
    /\ matches_name_and_type(path, o, ex)
    /\ o.empty /\ entry_is_file(path, FALSE, ex)

\* push_dir: the stack and stderr after it
push_dir(stk, e, path, depth, o, ex) ==
    IF os_stat(path, ex) = None \/ eloop(path, ex) \/ os_stat(path, ex) \in Unreadable
    THEN [stack |-> stk,
          err |-> IF o.quiet THEN e ELSE eprint(e, "cannot read directory", path)]
    ELSE [stack |-> Append(stk, [path |-> path, depth |-> depth,
                                 entries |-> os_scandir(path, ex)]),
          err |-> e]

\* the test of maxdepth before push_dir(root, 0)
root_is_listed(o) == o.maxdepth = None \/ o.maxdepth >= 0

\* _walk_root for a root that is a directory, up to its loop
FlatRootDir(root) ==
    \E p \in {IF root_is_listed(opts)
               THEN push_dir(<<>>, err, root, 0, opts, exists)
               ELSE [stack |-> <<>>, err |-> err]} :
        /\ stack' = p.stack
        /\ err' = p.err
        /\ out' = IF opts.mindepth <= 0 /\ matches_for_path(root, "None", opts, exists)
                  THEN Append(out, root) ELSE out
        /\ UNCHANGED <<pc, status>>

\* _walk_root for a root that is no directory
FlatRootOther(root) ==
    IF opts.mindepth <= 0 /\ matches_raises(root, "dummy", opts, exists)
    THEN /\ pc' = "crash"
         /\ status' = 1
         /\ UNCHANGED <<stack, err, out>>
    ELSE /\ out' = IF opts.mindepth <= 0
                      /\ matches_for_path(root, "dummy", opts, exists)
                   THEN Append(out, root) ELSE out
         /\ UNCHANGED <<pc, status, stack, err>>

\* one iteration of the loop of search: _walk_root up to its while loop
FlatStartRoot ==
    /\ pc = "search" /\ stack = <<>> /\ ri <= Len(paths)
    /\ \E root \in {<<paths[ri]>>} :
       \E root_stat \in {os_lstat(root, exists)} :
           IF root_stat = None
           THEN /\ err' = IF opts.quiet THEN err ELSE eprint(err, "cannot access", root)
                /\ UNCHANGED <<pc, status, stack, out>>
           ELSE IF S_ISDIR(root_stat) THEN FlatRootDir(root)
           ELSE FlatRootOther(root)
    /\ ri' = ri + 1
    /\ UNCHANGED <<tokens, expr, opts, paths, start_dev, visited_dirs, quit,
                   prune_flag, suppress, open_files, closed, total_matches, exists,
                   evals>>
    /\ UNCHANGED invocation

\* a descent that waits for mindepth: no directory above it is opened
descends_from_mindepth(o, path, depth, ex) ==
    /\ depth + 1 >= o.mindepth
    /\ entry_is_dir(path, o.follow_symlinks, ex)
    /\ ~should_exclude(path[Len(path)], o.exclude_dir)
    /\ ~(entry_is_symlink(path, ex) /\ ~o.follow_symlinks)
    /\ o.maxdepth = None \/ depth + 1 < o.maxdepth

\* a descent into whatever leads to a directory, symlinks included
descends_through_links(o, path, depth, ex) ==
    /\ entry_is_dir(path, TRUE, ex)
    /\ ~should_exclude(path[Len(path)], o.exclude_dir)
    /\ o.maxdepth = None \/ depth + 1 < o.maxdepth

\* a descent that does not look at exclude_dir
descends_into_excluded(o, path, depth, ex) ==
    /\ entry_is_dir(path, o.follow_symlinks, ex)
    /\ ~(entry_is_symlink(path, ex) /\ ~o.follow_symlinks)
    /\ o.maxdepth = None \/ depth + 1 < o.maxdepth

\* the conditions under which the entry at path, found in a directory of
\* depth depth, is passed to push_dir
descends(o, path, depth, ex) ==
    /\ entry_is_dir(path, o.follow_symlinks, ex)
    /\ ~should_exclude(path[Len(path)], o.exclude_dir)
    /\ ~(entry_is_symlink(path, ex) /\ ~o.follow_symlinks)
    /\ o.maxdepth = None \/ depth + 1 < o.maxdepth

\* the iteration of the while loop for the entry name of the directory on
\* top of the stack, rest being the stack with name taken from its iterator
FlatVisit(rest, cur_path, depth, name) ==
    \E path \in {Append(cur_path, name)} :
    \E descend \in {descends(opts, path, depth, exists)} :
    \E p \in {IF descend THEN push_dir(rest, err, path, depth + 1, opts, exists)
               ELSE [stack |-> rest, err |-> err]} :
        IF (opts.ignore_hidden /\ is_hidden(name)) \/ should_exclude(name, opts.exclude)
        THEN /\ stack' = rest
             /\ UNCHANGED <<out, err>>
        ELSE /\ out' = IF depth + 1 >= opts.mindepth
                          /\ matches_for_path(path, "entry", opts, exists)
                       THEN Append(out, path) ELSE out
             /\ stack' = p.stack
             /\ err' = p.err

\* one iteration of the while loop of _walk_root with next(it) an entry
FlatEntry ==
    /\ pc = "search" /\ stack # <<>> /\ Top.entries # {}
    /\ \E name \in Top.entries :
       \E rest \in {[stack EXCEPT ![Len(stack)].entries = @ \ {name}]} :
       \E cur \in {Top} :
          FlatVisit(rest, cur.path, cur.depth, name)
    /\ UNCHANGED <<pc, tokens, expr, opts, paths, ri, start_dev, visited_dirs, quit,
                   prune_flag, suppress, open_files, closed, total_matches, exists,
                   evals, status>>
    /\ UNCHANGED invocation

\* one iteration of the while loop with next(it) raising StopIteration
FlatPop ==
    /\ pc = "search" /\ stack # <<>> /\ Top.entries = {}
    /\ stack' = Pop
    /\ UNCHANGED <<pc, tokens, expr, opts, paths, ri, start_dev, visited_dirs, quit,
                   prune_flag, suppress, open_files, closed, total_matches, exists,
                   out, err, evals, status>>
    /\ UNCHANGED invocation

\* search has gone through its roots
FlatDone ==
    /\ pc = "search" /\ stack = <<>> /\ ri > Len(paths)
    /\ pc' = "done"
    /\ UNCHANGED <<tokens, expr, opts, paths, ri, stack, start_dev, visited_dirs,
                   quit, prune_flag, suppress, open_files, closed, total_matches,
                   exists, out, err, evals, status>>
    /\ UNCHANGED invocation

NextFlat == FlatStartRoot \/ FlatEntry \/ FlatPop \/ FlatDone

\* the options of the searches: every combination of the depth limits with
\* and without follow_symlinks, and the filters one or two at a time
FlatDepthOptions ==
    {[FlatDefaults EXCEPT !.maxdepth = m, !.mindepth = n, !.follow_symlinks = f] :
        m \in {None} \cup 0..MaxMaxDepth, n \in 0..MaxMinDepth, f \in BOOLEAN}

FlatRootLists == {<<"r">>, <<"root", "f">>, <<"x", "u">>, <<"s">>}

FlatFilterOptions ==
    { [FlatDefaults EXCEPT !.name = "a"],
      [FlatDefaults EXCEPT !.iname = "A"],
      [FlatDefaults EXCEPT !.type = "d"],
      [FlatDefaults EXCEPT !.type = "l"],
      [FlatDefaults EXCEPT !.type = "f", !.empty = TRUE],
      [FlatDefaults EXCEPT !.empty = TRUE],
      [FlatDefaults EXCEPT !.size = [op |-> "gt", ref |-> 0]],
      [FlatDefaults EXCEPT !.size = [op |-> "lt", ref |-> 2]],
      [FlatDefaults EXCEPT !.name = "A"],
      [FlatDefaults EXCEPT !.type = "d", !.empty = TRUE],
      [FlatDefaults EXCEPT !.iname = "A", !.type = "f", !.size = [op |-> "eq", ref |-> 1]],
      [FlatDefaults EXCEPT !.exclude = {"d"}],
      [FlatDefaults EXCEPT !.exclude_dir = {"d"}],
      [FlatDefaults EXCEPT !.exclude_dir = {"d"}, !.type = "f"],
      [FlatDefaults EXCEPT !.exclude_dir = {"*"}],
      [FlatDefaults EXCEPT !.exclude_dir = {"r", "sub"}],
      [FlatDefaults EXCEPT !.ignore_hidden = TRUE],
      [FlatDefaults EXCEPT !.quiet = TRUE] }

FlatCommands ==
    (FlatDepthOptions \X FlatRootLists)
    \cup (FlatFilterOptions \X (FlatRootLists \cup {<<"k">>}))

InitFlat ==
    \E cmd \in FlatCommands : InitAt("search", Cwd, FALSE, None, <<>>, cmd[1], cmd[2])

SpecFlat == InitFlat /\ [][NextFlat]_vars

(***************************************************************************)
(* The search as a running generator.  Its consumer (list(), the loop of   *)
(* main) asks for the next path until the generator is exhausted, and the  *)
(* generator is one thread, so whichever of its steps is possible is taken *)
(* in the end: every step is weakly fair.  The searches follow symlinks or *)
(* not, within every depth limit, on roots with symlinks: k/c leads to k,  *)
(* the directory it is in, r/e/l to r/d, s to r.                           *)
(***************************************************************************)
FlatLiveOptions ==
    {[FlatDefaults EXCEPT !.maxdepth = m, !.mindepth = n, !.follow_symlinks = f] :
        m \in {None} \cup 0..MaxMaxDepth, n \in {0, 1}, f \in BOOLEAN}
    \cup {[FlatDefaults EXCEPT !.follow_symlinks = TRUE, !.exclude_dir = {"d"}],
          [FlatDefaults EXCEPT !.follow_symlinks = TRUE, !.type = "l"]}

FlatLiveRootLists == {<<"k">>, <<"r">>, <<"s", "k">>, <<"x", "k", "f">>}

InitFlatLive ==
    \E o \in FlatLiveOptions, ps \in FlatLiveRootLists :
        InitAt("search", Cwd, FALSE, None, <<>>, o, ps)

SpecFlatLive ==
    /\ InitFlatLive
    /\ [][NextFlat]_vars
    /\ WF_vars(FlatStartRoot)
    /\ WF_vars(FlatEntry)
    /\ WF_vars(FlatPop)
    /\ WF_vars(FlatDone)

(***************************************************************************)
(* The findlike command (src/src/findlike/cli.py): main.  input holds the  *)
(* namespace of the arguments that main reads itself: size (given tells    *)
(* -size from its absence) and print0; opts holds the other arguments, as  *)
(* main copies them into Options.  main writes a yielded path before the   *)
(* generator runs on.  stdout is the sequence of what was written: paths,  *)
(* newlines and NULs.                                                      *)
(***************************************************************************)
PathOut(p) == [kind |-> "path", path |-> p]
NewLine == [kind |-> "nl", path |-> <<>>]
Nul == [kind |-> "nul", path |-> <<>>]

\* the int that digits in base 1024 stand for
RECURSIVE bytes_value(_)
bytes_value(ls) == IF ls = <<>> THEN 0 ELSE Head(ls) + 1024 * bytes_value(Tail(ls))

\* the number of paths main has written
Written == Cardinality({i \in 1..Len(stdout) : stdout[i].kind = "path"})

\* a path is yielded and not yet written
CliPending == Written < Len(out)

\* main after parse_size returned or raised r
CliParsed(r) ==
    IF r.ok
    THEN /\ opts' = [opts EXCEPT !.size = [op |-> r.op, ref |-> bytes_value(r.bytes)]]
         /\ pc' = "search"
         /\ UNCHANGED <<err, status>>
    ELSE /\ err' = eprint(err, "invalid -size", <<>>)
         /\ status' = 2
         /\ pc' = "exit"
         /\ opts' = opts

\* main up to its loop over search
CliParse ==
    /\ pc = "main"
    /\ IF input.given /\ input.size # <<>>
       THEN CliParsed(parse_size(input.size))
       ELSE /\ pc' = "search"
            /\ UNCHANGED <<opts, err, status>>
    /\ UNCHANGED <<tokens, expr, paths, ri, stack, start_dev, visited_dirs, quit,
                   prune_flag, suppress, open_files, closed, total_matches, exists,
                   out, evals, cwd, argv_empty, input, result, stdout>>

\* the writes of one iteration of `for path in search(...)`
writes(so, p, print0) ==
    IF print0 THEN so \o <<PathOut(p), Nul>>
    ELSE IF so = <<>> THEN <<PathOut(p)>> ELSE so \o <<NewLine, PathOut(p)>>

\* the body of the loop over search for the path yielded last
CliWrite ==
    /\ pc = "search" /\ CliPending
    /\ stdout' = writes(stdout, out[Written + 1], input.print0)
    /\ UNCHANGED <<pc, tokens, expr, opts, paths, ri, stack, start_dev,
                   visited_dirs, quit, prune_flag, suppress, open_files, closed,
                   total_matches, exists, out, err, evals, status, cwd, argv_empty,
                   input, result>>

\* the generator runs on once main has written the path it yielded
CliSearch == ~CliPending /\ NextFlat

\* what main writes after its loop
final_write(so, print0) == IF print0 THEN so ELSE Append(so, NewLine)

\* main after its loop: the last newline and return 0
CliReturn ==
    /\ pc = "done"
    /\ stdout' = final_write(stdout, input.print0)
    /\ status' = 0
    /\ pc' = "exit"
    /\ UNCHANGED <<tokens, expr, opts, paths, ri, stack, start_dev, visited_dirs,
                   quit, prune_flag, suppress, open_files, closed, total_matches,
                   exists, out, err, evals, cwd, argv_empty, input, result>>

NextCli == CliParse \/ CliSearch \/ CliWrite \/ CliReturn

CliOptions ==
    { FlatDefaults,
      [FlatDefaults EXCEPT !.maxdepth = 1],
      [FlatDefaults EXCEPT !.name = "A"],
      [FlatDefaults EXCEPT !.type = "f", !.empty = TRUE],
      [FlatDefaults EXCEPT !.quiet = TRUE] }

\* -size absent, empty, valid and not valid
CliSizes ==
    {[given |-> FALSE, size |-> <<>>]} \cup
    {[given |-> TRUE, size |-> t] :
        t \in {<<>>, <<"+", "0">>, <<"-", "2">>, <<"1", "k">>, <<"1", "x">>, <<"k">>}}

CliRootLists == {<<"r">>, <<"root", "f">>, <<"x">>}

InitCli ==
    \E o \in CliOptions, ps \in CliRootLists, sz \in CliSizes, print0 \in BOOLEAN :
        InitAt("main", Cwd, FALSE,
               [given |-> sz.given, size |-> sz.size, print0 |-> print0],
               <<>>, o, ps)

SpecCli == InitCli /\ [][NextCli]_vars

(***************************************************************************)
(* parse_size on every string of at most MaxSizeLen characters.            *)
(***************************************************************************)
MaxSizeLen == 3

SizeAlphabet == {"+", "-", "0", "1", "2", "b", "k", "K", "M", "g", "t", "x"}

SizeExpressions == UNION {[1..n -> SizeAlphabet] : n \in 0..MaxSizeLen}

InitFlatSize ==
    \E e \in SizeExpressions :
        InitAt("parse_size", Cwd, FALSE, e, <<>>, FlatDefaults, <<>>)

FlatSizeEval ==
    /\ pc = "parse_size"
    /\ result' = parse_size(input)
    /\ pc' = "exit"
    /\ UNCHANGED <<tokens, expr, opts, paths, ri, stack, start_dev, visited_dirs,
                   quit, prune_flag, suppress, open_files, closed, total_matches,
                   exists, out, err, evals, status, cwd, argv_empty, input,
                   stdout>>

NextFlatSize == FlatSizeEval

SpecFlatSize == InitFlatSize /\ [][NextFlatSize]_vars

(***************************************************************************)
(* Auxiliary definitions for the properties.                               *)
(***************************************************************************)
IsPrefix(p, q) == Len(p) <= Len(q) /\ SubSeq(q, 1, Len(p)) = p
IsProperPrefix(p, q) == Len(p) < Len(q) /\ IsPrefix(p, q)

\* the nodes of a tree with their positions
RECURSIVE NodesAt(_, _)
NodesAt(node, pos) ==
    {[pos |-> pos, node |-> node]} \cup
    (CASE node.op = "not" -> NodesAt(node.child, Append(pos, "child"))
       [] node.op \in {"and", "or", "comma"} ->
            NodesAt(node.left, Append(pos, "left")) \cup
            NodesAt(node.right, Append(pos, "right"))
       [] OTHER -> {})

Evaluated(tr, pos) == \E k \in DOMAIN tr : tr[k].pos = pos
IndexOf(tr, pos) == CHOOSE k \in DOMAIN tr : tr[k].pos = pos
ValueOf(tr, pos) == tr[IndexOf(tr, pos)].val

ActionOps == {"print", "fprint", "delete", "exec", "prune", "quit"}

\* the path of an inode from cwd, symlinks not followed
RECURSIVE PathOf(_)
PathOf(i) ==
    IF FS[i].parent = Cwd THEN <<FS[i].name>>
    ELSE Append(PathOf(FS[i].parent), FS[i].name)

TreePaths(root) == {PathOf(i) : i \in {j \in Inodes : PathOf(j)[1] = root}}

ChildPaths(path) == {q \in TreePaths(path[1]) : Len(q) = Len(path) + 1 /\ IsPrefix(path, q)}

EvaluatedPaths == {evals[k].path : k \in DOMAIN evals}

RECURSIVE Flatten(_)
Flatten(seqs) == IF seqs = <<>> THEN <<>> ELSE Head(seqs) \o Flatten(Tail(seqs))

(***************************************************************************)
(* C1.  In every evaluation, an AndNode evaluates its right operand iff    *)
(* its left operand returned true and an OrNode iff its left operand       *)
(* returned false; every visible effect, every prune and every quit of the *)
(* evaluation comes from a node that was evaluated, so a skipped operand   *)
(* has no side effect.                                                     *)
(***************************************************************************)
C1_ShortCircuit ==
    \A k \in DOMAIN evals :
        LET tr == evals[k].trace
            ns == NodesAt(expr, <<>>)
        IN  /\ \A n \in ns :
                  (n.node.op \in {"and", "or"} /\ Evaluated(tr, Append(n.pos, "left")))
                  => (Evaluated(tr, Append(n.pos, "right"))
                        <=> (ValueOf(tr, Append(n.pos, "left")) = (n.node.op = "and")))
            /\ \A e \in DOMAIN evals[k].effects :
                  Evaluated(tr, evals[k].effects[e].pos)
            /\ evals[k].prune_flag =>
                  \E n \in ns : n.node.op = "prune" /\ Evaluated(tr, n.pos)
            /\ evals[k].quit =>
                  \E n \in ns : n.node.op = "quit" /\ Evaluated(tr, n.pos)

\* an action to the right of -a or of -o was skipped and nothing happened
C1_Witness ==
    \E k \in DOMAIN evals : \E n \in NodesAt(expr, <<>>) :
        /\ n.node.op \in {"and", "or"}
        /\ n.node.right.op \in ActionOps
        /\ Evaluated(evals[k].trace, Append(n.pos, "left"))
        /\ ~Evaluated(evals[k].trace, Append(n.pos, "right"))
        /\ evals[k].effects = <<>>

(***************************************************************************)
(* C2.  In every evaluation, a CommaNode that is evaluated evaluates its   *)
(* left operand, then its right operand, whatever the left one returned,   *)
(* and returns the value of the right operand; the effects of the left     *)
(* operand come before those of the right operand.                         *)
(***************************************************************************)
C2_Comma ==
    \A k \in DOMAIN evals :
        LET tr == evals[k].trace
            ef == evals[k].effects
        IN  \A n \in NodesAt(expr, <<>>) :
               (n.node.op = "comma" /\ Evaluated(tr, n.pos)) =>
                  /\ Evaluated(tr, Append(n.pos, "left"))
                  /\ Evaluated(tr, Append(n.pos, "right"))
                  /\ IndexOf(tr, Append(n.pos, "left")) < IndexOf(tr, Append(n.pos, "right"))
                  /\ ValueOf(tr, n.pos) = ValueOf(tr, Append(n.pos, "right"))
                  /\ \A i, j \in DOMAIN ef :
                        (IsPrefix(Append(n.pos, "left"), ef[i].pos)
                           /\ IsPrefix(Append(n.pos, "right"), ef[j].pos)) => i < j

\* a comma whose left operand returned false and whose right one returned true
C2_Witness ==
    \E k \in DOMAIN evals : \E n \in NodesAt(expr, <<>>) :
        /\ n.node.op = "comma"
        /\ Evaluated(evals[k].trace, n.pos)
        /\ ~ValueOf(evals[k].trace, Append(n.pos, "left"))
        /\ ValueOf(evals[k].trace, n.pos)
        /\ evals[k].effects # <<>>

(***************************************************************************)
(* C3.  Comma has the lowest precedence and OR the next lowest: for        *)
(* operands A, B, C the tokens `A -o B , C` parse to Comma(Or(A,B),C) and  *)
(* `A , B -o C` to Comma(A,Or(B,C)); AND, explicit or by juxtaposition,    *)
(* binds tighter than both.                                                *)
(***************************************************************************)
Operands == {"-true", "-false", "-print"}

Operand(tok) == parse_test_or_action(<<tok>>, tok, 2).node

C3_Precedence ==
    (pc # "parse" /\ Len(tokens) = 5
        /\ tokens[1] \in Operands /\ tokens[3] \in Operands /\ tokens[5] \in Operands)
    => LET A == Operand(tokens[1])
           B == Operand(tokens[3])
           C == Operand(tokens[5])
       IN  /\ (tokens[2] = "-o" /\ tokens[4] = ",")
                 => expr = CommaNode(OrNode(A, B), C)
           /\ (tokens[2] = "," /\ tokens[4] = "-o")
                 => expr = CommaNode(A, OrNode(B, C))
           /\ (tokens[2] = "-o" /\ tokens[4] = "-a")
                 => expr = OrNode(A, AndNode(B, C))
           /\ (tokens[2] = "," /\ tokens[4] = "-a")
                 => expr = CommaNode(A, AndNode(B, C))

(***************************************************************************)
(* C4.  Once the quit flag is true it stays true and no evaluation of the  *)
(* expression is started any more: not for a sibling, a descendant, an     *)
(* ancestor in -depth mode or a later start path.                          *)
(***************************************************************************)
C4_QuitStops == [][quit => (quit' /\ evals' = evals)]_vars

\* the run is over after a quit below the first of two start paths in
\* -depth mode, and the entries left over were not evaluated
C4_Witness ==
    /\ pc = "exit" /\ quit /\ opts.depth_first /\ paths = <<"r", "f">>
    /\ <<"r", "d">> \in EvaluatedPaths
    /\ <<"r">> \notin EvaluatedPaths /\ <<"f">> \notin EvaluatedPaths

(***************************************************************************)
(* C5.  In pre-order mode nothing beneath a directory whose evaluation set *)
(* the prune flag is evaluated; the flag is set after an evaluation only   *)
(* if that evaluation ran a -prune, so it never carries over; and when the *)
(* run ends without quit, every directory that was not pruned, can be      *)
(* listed and is not cut off by maxdepth or the mount restriction has all  *)
(* its entries evaluated, whatever was pruned beside it.                   *)
(***************************************************************************)
C5_Prune ==
    ~opts.depth_first =>
       /\ \A k, j \in DOMAIN evals :
             (evals[k].is_dir /\ evals[k].prune_flag)
             => ~IsProperPrefix(evals[k].path, evals[j].path)
       /\ \A k \in DOMAIN evals :
             evals[k].prune_flag
             <=> \E n \in NodesAt(expr, <<>>) :
                    n.node.op = "prune" /\ Evaluated(evals[k].trace, n.pos)
       /\ (pc = "exit" /\ status = 0 /\ ~quit)
             => \A k \in DOMAIN evals :
                   (/\ evals[k].is_dir /\ ~evals[k].prune_flag
                    /\ os_lstat(evals[k].path, Inodes) \notin Unreadable
                    /\ (opts.maxdepth = None \/ evals[k].depth < opts.maxdepth)
                    /\ (opts.mount =>
                          FS[os_lstat(evals[k].path, Inodes)].st_dev
                            = FS[os_lstat(<<evals[k].path[1]>>, Inodes)].st_dev))
                   => ChildPaths(evals[k].path) \subseteq EvaluatedPaths

\* r/d was pruned, and afterwards the entry beneath its sibling r/e was
\* evaluated
C5_Witness ==
    /\ pc = "exit" /\ ~opts.depth_first
    /\ \E k, j \in DOMAIN evals :
          /\ k < j
          /\ evals[k].path = <<"r", "d">> /\ evals[k].prune_flag
          /\ evals[j].path = <<"r", "e", "l">>
    /\ <<"r", "d", "m">> \notin EvaluatedPaths

(***************************************************************************)
(* C6.  Whenever the expression is evaluated for an entry of depth d, the  *)
(* suppression flag of the context is (maxdepth set and d > maxdepth) or   *)
(* (d < mindepth), in pre-order and in post-order evaluations.             *)
(***************************************************************************)
C6_SuppressionOfEntry ==
    \A k \in DOMAIN evals :
        evals[k].suppress
          = ((opts.maxdepth # None /\ evals[k].depth > opts.maxdepth)
               \/ evals[k].depth < opts.mindepth)

(***************************************************************************)
(* C7.  With the expression -print the printed paths are exactly the       *)
(* entries of the tree whose depth d satisfies mindepth <= d <= maxdepth.  *)
(***************************************************************************)
C7_PrintedWithinDepths ==
    (pc = "exit" /\ status = 0 /\ tokens = <<"-print">> /\ paths = <<"r">>
        /\ opts.follow = "P" /\ ~opts.mount)
    => {out[k].path : k \in DOMAIN out}
         = {p \in TreePaths("r") :
               /\ opts.mindepth <= Len(p) - 1
               /\ opts.maxdepth # None => Len(p) - 1 <= opts.maxdepth}

C9_DepthFirstOrder ==
    /\ \A i, j \in DOMAIN evals :
          IsProperPrefix(evals[i].path, evals[j].path)
          => IF opts.depth_first THEN j < i ELSE i < j
    /\ \A i, j, k \in DOMAIN evals :
          (i < j /\ j < k) =>
             \A n \in 1..Len(evals[i].path) :
                IsPrefix(SubSeq(evals[i].path, 1, n), evals[k].path)
                => IsPrefix(SubSeq(evals[i].path, 1, n), evals[j].path)
    /\ \A k \in DOMAIN evals :
          evals[k].order = IF opts.depth_first /\ evals[k].is_dir THEN "post" ELSE "pre"
    /\ \A k \in DOMAIN evals :
          (opts.depth_first /\ evals[k].is_dir
             /\ os_lstat(evals[k].path, Inodes) \notin Unreadable
             /\ (opts.maxdepth = None \/ evals[k].depth < opts.maxdepth)
             /\ (opts.mount =>
                    FS[os_lstat(evals[k].path, Inodes)].st_dev
                      = FS[os_lstat(<<evals[k].path[1]>>, Inodes)].st_dev))
          => \A q \in ChildPaths(evals[k].path) :
                \E j \in 1..(k - 1) : evals[j].path = q
    /\ out = Flatten([k \in DOMAIN evals |-> evals[k].effects])

\* a -depth run that evaluated r/d/m, then r/d, then r, with output
C9_Witness ==
    /\ pc = "exit" /\ opts.depth_first /\ out # <<>>
    /\ \E i, j, k \in DOMAIN evals :
          /\ i < j /\ j < k
          /\ evals[i].path = <<"r", "d", "m">>
          /\ evals[j].path = <<"r", "d">>
          /\ evals[k].path = <<"r">>

(***************************************************************************)
(* C10.  Under -L a symlink that resolves to a directory is descended      *)
(* into: the entries of the target directory are visited beneath the       *)
(* path of the symlink.                                                    *)
(***************************************************************************)
C10_FollowEverywhere ==
    (pc = "exit" /\ status = 0 /\ ~quit /\ opts.follow = "L"
        /\ opts.maxdepth = None /\ tokens = <<"-print">>)
    => \A k \in DOMAIN evals :
          LET lst == os_lstat(evals[k].path, exists)
              st == os_stat(evals[k].path, exists)
          IN  (lst # None /\ S_ISLNK(lst) /\ st # None /\ S_ISDIR(st))
              => \A name \in os_scandir(evals[k].path, exists) :
                    Append(evals[k].path, name) \in EvaluatedPaths

(***************************************************************************)
(* C11.  Under -H a start path that is a symlink to a directory is         *)
(* followed: the entries of the target directory are visited beneath it;   *)
(* a symlink to a directory met below a start path is not followed.        *)
(***************************************************************************)
C11_FollowRootOnly ==
    (pc = "exit" /\ status = 0 /\ ~quit /\ opts.follow = "H"
        /\ opts.maxdepth = None /\ tokens = <<"-print">>)
    => /\ \A i \in DOMAIN paths :
             LET lst == os_lstat(<<paths[i]>>, exists)
                 st == os_stat(<<paths[i]>>, exists)
             IN  (lst # None /\ S_ISLNK(lst) /\ st # None /\ S_ISDIR(st))
                 => \A name \in os_scandir(<<paths[i]>>, exists) :
                       <<paths[i], name>> \in EvaluatedPaths
       /\ \A k, j \in DOMAIN evals :
             (Len(evals[k].path) > 1 /\ S_ISLNK(os_lstat(evals[k].path, exists)))
             => ~IsProperPrefix(evals[k].path, evals[j].path)

(***************************************************************************)
(* C12.  An error met at one entry never aborts the run: no exception      *)
(* leaves walk when a directory cannot be listed, whether for lack of      *)
(* permission or because it vanished after its evaluation; such a          *)
(* directory has no children, and every start path that exists is still    *)
(* evaluated when the run ends without quit.                               *)
(***************************************************************************)
C12_NeverAborts ==
    /\ pc # "crash"
    /\ \A i \in DOMAIN stack :
          (stack[i].lst \in Unreadable \/ stack[i].lst \notin exists)
          => stack[i].entries = {}
    /\ (pc = "exit" /\ status = 0 /\ ~quit)
          => \A i \in DOMAIN paths :
                os_lstat(<<paths[i]>>, Inodes) # None
                => <<paths[i]>> \in EvaluatedPaths

(***************************************************************************)
(* C13.  An unmatched parenthesis in either direction is a fatal parse     *)
(* error: for a token list in which a '(' has no ')' or a ')' has no '('   *)
(* before it, main reports the error and returns status 1 without          *)
(* starting the traversal; and a parse that succeeds has consumed every    *)
(* token.                                                                  *)
(***************************************************************************)
RECURSIVE ParenScan(_, _)
ParenScan(toks, depth) ==
    IF toks = <<>> THEN depth = 0
    ELSE IF Head(toks) = "(" THEN ParenScan(Tail(toks), depth + 1)
    ELSE IF Head(toks) = ")" THEN depth > 0 /\ ParenScan(Tail(toks), depth - 1)
    ELSE ParenScan(Tail(toks), depth)

Balanced(toks) == ParenScan(toks, 0)

C13_UnmatchedParenthesis ==
    pc # "parse" =>
       /\ ~Balanced(tokens) => (pc = "exit" /\ status = 1 /\ err # <<>>)
       /\ parse_expression(tokens).ok
             => parse_expression(tokens).i > Len(tokens)

(***************************************************************************)
(* C14.  A token list that ends in a test or action without its required   *)
(* argument, or holds a token that is no test, action or operator where an *)
(* operand is expected, makes parse_expression fail: main reports the      *)
(* error and returns status 1, no start path is traversed, no entry is     *)
(* evaluated and nothing is printed, opened, removed or spawned.           *)
(***************************************************************************)
ArgTokens == {"-name", "-type", "-size", "-fprint", "-fprint0"}

ExecTokens == {"-exec", "-execdir", "-ok", "-okdir"}

KnownTokens ==
    ArgTokens \cup ExecTokens \cup
    {"-true", "-false", "-empty", "-print", "-print0", "-prune", "-quit",
     "-delete", "(", ")", "!", "-not", "-a", "-and", "-o", "-or", ","}

\* the last token takes an argument and is not itself the argument of the
\* token before it
LacksArgument(toks) ==
    /\ toks # <<>>
    /\ toks[Len(toks)] \in ArgTokens
    /\ Len(toks) > 1 => toks[Len(toks) - 1] \notin ArgTokens
    /\ \A j \in DOMAIN toks : toks[j] \notin ExecTokens

\* a token that is not known, is no argument of the token before it and
\* follows no unmatched ')'
UnknownOperand(toks) ==
    \E k \in DOMAIN toks :
        /\ toks[k] \notin KnownTokens
        /\ k > 1 => toks[k - 1] \notin ArgTokens
        /\ \A j \in 1..(k - 1) : toks[j] \notin ExecTokens
        /\ \A j \in 1..(k - 1) :
              Cardinality({n \in 1..j : toks[n] = ")"})
                 <= Cardinality({n \in 1..j : toks[n] = "("})

C14_MalformedExpression ==
    (pc # "parse" /\ (LacksArgument(tokens) \/ UnknownOperand(tokens)))
    => /\ pc = "exit" /\ status = 1
       /\ err = <<[msg |-> "parse error", path |-> <<>>]>>
       /\ ri = 1 /\ stack = <<>>
       /\ evals = <<>> /\ total_matches = 0
       /\ out = <<>> /\ open_files = {} /\ exists = Inodes

\* main has returned for -delete followed by a test without its argument
C14_Witness ==
    /\ pc = "exit" /\ status = 1
    /\ LacksArgument(tokens)
    /\ tokens[1] = "-delete"

(***************************************************************************)
(* C15.  When traverse has ended, on whichever path (start paths           *)
(* exhausted, -quit, an exception or an interrupt leaving the walk), every *)
(* output file opened during the traversal has had its handle closed and   *)
(* the handle map of the context is empty; until then no handle is closed. *)
(***************************************************************************)
OpenedFiles == {out[k].arg[1][1] : k \in {j \in DOMAIN out : out[j].act = "open"}}

C15_HandlesClosed ==
    IF pc = "exit"
    THEN open_files = {} /\ closed = OpenedFiles
    ELSE closed = {}

\* an interrupt ended the traversal after the file o had been opened
C15_Witness ==
    /\ pc = "exit" /\ status = 130
    /\ "o" \in OpenedFiles
    /\ "o" \in closed

(***************************************************************************)
(* C16.  Each output file of -fprint/-fprint0 is opened at most once in a  *)
(* traversal; it is opened by the first write to it, which an unsuppressed *)
(* evaluation makes when it reaches the action, and never before the first *)
(* evaluation; every later write finds the handle in the map, where it     *)
(* stays while the traversal runs.                                         *)
(***************************************************************************)
WriteActs == {"fprint", "fprint0"}

RootOf(p) == CHOOSE i \in DOMAIN paths : paths[i] = p[1]

NoSuchFile(p) == [msg |-> "No such file or directory", path |-> <<p>>]

C17_StartPaths ==
    /\ \A i \in DOMAIN paths :
          os_lstat(<<paths[i]>>, Inodes) = None
          => /\ \A k \in DOMAIN evals : evals[k].path[1] # paths[i]
             /\ \A n \in DOMAIN stack : stack[n].path[1] # paths[i]
             /\ Cardinality({e \in DOMAIN err : err[e] = NoSuchFile(paths[i])})
                  = IF ri > i THEN 1 ELSE 0
    /\ \A j, k \in DOMAIN evals :
          j < k => RootOf(evals[j].path) <= RootOf(evals[k].path)
    /\ (pc = "exit" /\ status = 0 /\ ~quit)
          => \A i \in DOMAIN paths :
                os_lstat(<<paths[i]>>, Inodes) # None
                => \E k \in DOMAIN evals : evals[k].path = <<paths[i]>>
    /\ \A i \in DOMAIN paths :
          LET st == os_stat(<<paths[i]>>, Inodes)
              n == Cardinality({k \in DOMAIN evals : evals[k].path = <<paths[i]>>})
          IN  (st # None /\ ~S_ISDIR(st))
              => /\ n <= 1
                 /\ (pc = "exit" /\ status = 0 /\ ~quit) => n = 1
                 /\ \A k \in DOMAIN evals :
                       ~IsProperPrefix(<<paths[i]>>, evals[k].path)
                 /\ \A m \in DOMAIN stack :
                       stack[m].path = <<paths[i]>> => ~stack[m].listed

\* a -depth run over u, the missing x and the file f has ended: x was
\* reported, u and f were evaluated
C17_Witness ==
    /\ pc = "exit" /\ status = 0 /\ opts.depth_first
    /\ paths = <<"u", "x", "f">>
    /\ NoSuchFile("x") \in {err[e] : e \in DOMAIN err}
    /\ \E j, k \in DOMAIN evals :
          j < k /\ evals[j].path = <<"u">> /\ evals[k].path = <<"f">>

(***************************************************************************)
(* C18.  With -mount/-xdev a directory on another device than its start    *)
(* path is evaluated but never listed, so nothing beneath it is evaluated; *)
(* with or without the option, when the run ends without quit every        *)
(* directory on the device of its start path that is not pruned, can be    *)
(* listed and lies above maxdepth has all its entries evaluated, the       *)
(* directories on other devices among them; for -print on r the entries    *)
(* evaluated are those within maxdepth, less, under the option, the ones   *)
(* beneath a directory on another device.                                  *)
(***************************************************************************)
DeviceOf(p) == FS[os_lstat(p, Inodes)].st_dev

C18_MountRestriction ==
    /\ opts.mount =>
          /\ \A n \in DOMAIN stack :
                (stack[n].is_dir /\ FS[stack[n].lst].st_dev # start_dev)
                => (~stack[n].listed /\ stack[n].entries = {})
          /\ \A k, j \in DOMAIN evals :
                (evals[k].is_dir
                   /\ DeviceOf(evals[k].path) # DeviceOf(<<evals[k].path[1]>>))
                => ~IsProperPrefix(evals[k].path, evals[j].path)
    /\ (pc = "exit" /\ status = 0 /\ ~quit)
          => \A k \in DOMAIN evals :
                (/\ evals[k].is_dir
                 /\ DeviceOf(evals[k].path) = DeviceOf(<<evals[k].path[1]>>)
                 /\ ~(evals[k].order = "pre" /\ evals[k].prune_flag)
                 /\ os_lstat(evals[k].path, Inodes) \notin Unreadable
                 /\ (opts.maxdepth = None \/ evals[k].depth < opts.maxdepth))
                => ChildPaths(evals[k].path) \subseteq EvaluatedPaths
    /\ (pc = "exit" /\ status = 0 /\ tokens = <<"-print">> /\ paths = <<"r">>
           /\ opts.follow = "P")
          => EvaluatedPaths
               = {p \in TreePaths("r") :
                     /\ opts.maxdepth # None => Len(p) - 1 <= opts.maxdepth
                     /\ opts.mount =>
                           \A n \in 1..(Len(p) - 1) :
                              DeviceOf(SubSeq(p, 1, n)) = DeviceOf(<<"r">>)}

\* a run with the mount restriction has ended: r/e, on device 2, was
\* evaluated and r/e/l was not, r/d/m on the device of r was
C18_Witness ==
    /\ opts.mount /\ pc = "exit" /\ status = 0
    /\ <<"r", "e">> \in EvaluatedPaths
    /\ <<"r", "e", "l">> \notin EvaluatedPaths
    /\ <<"r", "d", "m">> \in EvaluatedPaths

(***************************************************************************)
(* C19.  In an unsuppressed evaluation a -delete removes the entry and     *)
(* returns true when the entry is an empty directory or is not a           *)
(* directory, and it is still there; otherwise (a directory with entries,  *)
(* an entry already removed) it removes nothing, returns false and one     *)
(* failure is reported; no exception leaves walk after a failed removal.   *)
(***************************************************************************)
DeleteNodes(k) ==
    {n \in NodesAt(expr, <<>>) :
        n.node.op = "delete" /\ Evaluated(evals[k].trace, n.pos)}

FailedToDelete(p) == [msg |-> "failed to delete", path |-> p]

C19_Delete ==
    /\ \A k \in DOMAIN evals :
          ~evals[k].suppress =>
             LET tr == evals[k].trace
                 ds == DeleteNodes(k)
                 removable ==
                     evals[k].is_dir
                     => os_scandir(evals[k].path, evals[k].before) = {}
                 succeeded == {n \in ds : ValueOf(tr, n.pos)}
             IN  /\ \A n \in ds :
                       ValueOf(tr, n.pos)
                         = (removable /\ \A m \in ds :
                                            IndexOf(tr, n.pos) <= IndexOf(tr, m.pos))
                 /\ \A n \in ds :
                       ValueOf(tr, n.pos)
                       <=> \E e \in DOMAIN evals[k].effects :
                              evals[k].effects[e]
                                = [act |-> "delete", pos |-> n.pos,
                                   path |-> evals[k].path, arg |-> <<>>]
                 /\ evals[k].removed
                      = IF succeeded # {}
                        THEN {os_lstat(evals[k].path, evals[k].before)} ELSE {}
                 /\ Cardinality({e \in DOMAIN evals[k].reports :
                                   evals[k].reports[e] = FailedToDelete(evals[k].path)})
                      = Cardinality(ds \ succeeded)
    /\ pc = "crash" => evals[Len(evals)].removed # {}

\* the removal of the directory r/d failed while it held r/d/m, the
\* evaluations went on, r/d/m was removed and the run ended
C19_Witness ==
    /\ pc = "exit" /\ status = 0
    /\ \E j, k \in DOMAIN evals :
          /\ j < k
          /\ evals[j].path = <<"r", "d">> /\ ~evals[j].suppress
          /\ DeleteNodes(j) # {}
          /\ evals[j].removed = {}
          /\ FailedToDelete(<<"r", "d">>) \in {evals[j].reports[e] : e \in DOMAIN evals[j].reports}
          /\ evals[k].removed # {}

(***************************************************************************)
(* C20.  In an unsuppressed evaluation an -exec/-execdir/-ok/-okdir action *)
(* returns true exactly when a process was spawned and exited with status  *)
(* 0; a command whose executable is not found spawns nothing, is reported  *)
(* and returns false, and no exception leaves walk; the command line is    *)
(* the arguments of the action with each {} replaced by the path of the    *)
(* entry, or followed by the path when there is no {}.                     *)
(***************************************************************************)
ExecNodes(k) ==
    {n \in NodesAt(expr, <<>>) :
        n.node.op = "exec" /\ Evaluated(evals[k].trace, n.pos)}

CommandLine(argv, path) ==
    LET replaced == [i \in 1..Len(argv) |->
                        IF argv[i] = "{}" THEN path ELSE <<argv[i]>>]
    IN  IF \E i \in 1..Len(argv) : argv[i] = "{}"
        THEN replaced
        ELSE replaced \o <<path>>

Spawned(k, n) ==
    {e \in DOMAIN evals[k].effects :
        evals[k].effects[e].act = "exec" /\ evals[k].effects[e].pos = n.pos}

C20_Exec ==
    /\ \A k \in DOMAIN evals :
          ~evals[k].suppress =>
             \A n \in ExecNodes(k) :
                LET cmd == CommandLine(n.node.argv, evals[k].path)
                    found == returncode(cmd) # None
                    asked == n.node.prompt
                    accepted == asked => stdin_readline(cmd) = "y"
                IN  /\ Cardinality(Spawned(k, n)) = IF found /\ accepted THEN 1 ELSE 0
                    /\ \A e \in Spawned(k, n) :
                          evals[k].effects[e]
                            = [act |-> "exec", pos |-> n.pos,
                               path |-> evals[k].path, arg |-> cmd]
                    /\ ValueOf(evals[k].trace, n.pos)
                         = (Spawned(k, n) # {} /\ returncode(cmd) = 0)
                    /\ (accepted /\ ~found)
                          => [msg |-> "command not found", path |-> cmd[1]]
                               \in {evals[k].reports[e] : e \in DOMAIN evals[k].reports}
    /\ pc = "crash" => DeleteNodes(Len(evals)) # {}

\* false r/a exited with status 1, true r/a was then spawned with the path
\* appended and returned true, and a later entry was evaluated
C20_Witness ==
    \E k \in DOMAIN evals :
        /\ k < Len(evals)
        /\ evals[k].path = <<"r", "a">>
        /\ \E i, j \in DOMAIN evals[k].effects :
              /\ i < j
              /\ evals[k].effects[i].act = "exec"
              /\ evals[k].effects[i].arg = <<<<"false">>, <<"r", "a">>>>
              /\ evals[k].effects[j].act = "exec"
              /\ evals[k].effects[j].arg = <<<<"true">>, <<"r", "a">>>>
        /\ evals[k].val

(***************************************************************************)
(* C21: -exec, -execdir, -ok and -okdir consume every token up to and      *)
(* including the first ';' or '+'; the tokens in between are the command   *)
(* whatever they are, and the parse continues after the terminator as it   *)
(* would after any primary: the result is the one of the expression with   *)
(* the whole run replaced by a single primary, that primary being the      *)
(* ExecNode of the run.  When the tokens end before a terminator and the   *)
(* parser gets to the action, parsing fails.                               *)
(***************************************************************************)
ExecActions == {"-exec", "-execdir", "-ok", "-okdir"}

\* the position of the first -exec action of toks, 0 when there is none
FirstExec(toks) ==
    LET s == {i \in 1..Len(toks) : toks[i] \in ExecActions}
    IN  IF s = {} THEN 0 ELSE CHOOSE i \in s : \A j \in s : i <= j

\* the position of the first terminator after position i, 0 when there is none
FirstTerminator(toks, i) ==
    LET s == {j \in (i + 1)..Len(toks) : toks[j] \in {";", "+"}}
    IN  IF s = {} THEN 0 ELSE CHOOSE j \in s : \A k \in s : j <= k

\* node with every -prune primary replaced by the node e
RECURSIVE Subst(_, _)
Subst(node, e) ==
    CASE node.op = "prune" -> e
      [] node.op = "not" -> NotNode(Subst(node.child, e))
      [] node.op \in {"and", "or", "comma"} ->
            [node EXCEPT !.left = Subst(node.left, e), !.right = Subst(node.right, e)]
      [] OTHER -> node

RECURSIVE HasPrune(_)
HasPrune(node) ==
    CASE node.op = "prune" -> TRUE
      [] node.op = "not" -> HasPrune(node.child)
      [] node.op \in {"and", "or", "comma"} -> HasPrune(node.left) \/ HasPrune(node.right)
      [] OTHER -> FALSE

C22_ExitStatus ==
    [][/\ (MainParse /\ pc' = "exit") => status' = 1
       /\ Interrupt => status' = 130
       /\ (Finish /\ pc = "traverse") => status' = 0]_vars

(***************************************************************************)
(* C23: in findlike, a search with maxdepth = N yields no entry more than  *)
(* N levels below its root: with N = 0 the roots alone, with N = 1 the     *)
(* roots and their immediate children.  Every root of the searches is one  *)
(* name, so a yielded path of n names is n - 1 levels below its root.      *)
(***************************************************************************)
C23_FlatMaxDepth ==
    opts.maxdepth # None =>
        \A i \in 1..Len(out) : Len(out[i]) - 1 <= opts.maxdepth

(***************************************************************************)
(* C24: -empty is true exactly for a regular file of zero bytes and for a  *)
(* directory without entries; it is false for every other entry, whatever  *)
(* its kind, and false for a directory that cannot be read.                *)
(***************************************************************************)
EmptyNodes(k) ==
    {n \in NodesAt(expr, <<>>) :
        n.node.op = "empty" /\ Evaluated(evals[k].trace, n.pos)}

IsEmpty(path, ex) ==
    LET ino == os_lstat(path, ex)
    IN  \/ S_ISREG(ino) /\ FS[ino].st_size = 0
        \/ S_ISDIR(ino) /\ ino \notin Unreadable /\ os_scandir(path, ex) = {}

C24_Empty ==
    \A k \in DOMAIN evals :
        \A n \in EmptyNodes(k) :
            ValueOf(evals[k].trace, n.pos) = IsEmpty(evals[k].path, evals[k].before)

(***************************************************************************)
(* C25: for a file of s bytes and an argument of -size made of an optional *)
(* sign, a number N and a unit of u bytes (512 for b and for no suffix, 1  *)
(* for c, 2 for w, 1024 for k, 2^20 for M, 2^30 for G), the test compares  *)
(* s/u rounded up with N: greater for +N, less for -N, equal for N.  A     *)
(* file of one byte matches -size 1k and does not match -size 0k.          *)
(***************************************************************************)
Ceil(s, u) == IF s % u = 0 THEN s \div u ELSE (s \div u) + 1

UnitOf(suffix) ==
    CASE suffix = <<>> -> 512
      [] suffix = <<"b">> -> 512
      [] suffix = <<"c">> -> 1
      [] suffix = <<"w">> -> 2
      [] suffix = <<"k">> -> 1024
      [] suffix = <<"M">> -> 1048576
      [] suffix = <<"G">> -> 1073741824

\* the number a string of the digits 0, 1 and 2 denotes, read from the left
RECURSIVE Decimal(_, _)
Decimal(ds, acc) ==
    IF ds = <<>> THEN acc
    ELSE Decimal(Tail(ds), 10 * acc + (IF Head(ds) = "1" THEN 1
                                       ELSE IF Head(ds) = "2" THEN 2 ELSE 0))

C25_Size ==
    pc = "exit" =>
        \A s \in SizeSigns, n \in SizeNumbers \ {<<>>}, u \in SizeSuffixes \ {<<"x">>} :
            input.spec = s \o n \o u =>
                /\ result.ok
                /\ result.val =
                      CASE s = <<"+">> -> Ceil(input.size, UnitOf(u)) > Decimal(n, 0)
                        [] s = <<"-">> -> Ceil(input.size, UnitOf(u)) < Decimal(n, 0)
                        [] OTHER -> Ceil(input.size, UnitOf(u)) = Decimal(n, 0)
                /\ (input.size = 1 /\ s = <<>> /\ u = <<"k">>)
                      => /\ Decimal(n, 0) = 1 => result.val
                         /\ Decimal(n, 0) = 0 => ~result.val

\* a file of one byte matches -size 1k
C25_Witness ==
    /\ pc = "exit"
    /\ input = [spec |-> <<"1", "k">>, size |-> 1]
    /\ result.ok /\ result.val

(***************************************************************************)
(* C26: traverse terminates on a finite filesystem in every follow mode,   *)
(* symlinks that form a cycle included: every call of walk returns and     *)
(* main reaches its end, after the quit flag is seen or after the last     *)
(* start path and its subtree.                                             *)
(***************************************************************************)
C26_Terminates == <>(pc = "exit" /\ stack = <<>>)

\* a traversal under -L through k, whose entry c leads back to k, has ended
C26_Witness ==
    /\ pc = "exit" /\ status = 0
    /\ opts.follow = "L"
    /\ paths = <<"k">>
    /\ \E k \in DOMAIN evals : evals[k].path = <<"k", "c">>

(***************************************************************************)
(* C27: -quit does not cut an evaluation short.  The evaluation in which   *)
(* -quit is reached goes on as if -quit were -true: the same nodes are     *)
(* evaluated in the same order with the same values and the same effects   *)
(* (-quit -print prints the current entry).  What -quit prevents is every  *)
(* evaluation after this one.                                              *)
(***************************************************************************)
\* node with every -quit replaced by -true
RECURSIVE WithoutQuit(_)
WithoutQuit(node) ==
    CASE node.op = "quit" -> BoolNode(TRUE)
      [] node.op = "not" -> NotNode(WithoutQuit(node.child))
      [] node.op \in {"and", "or", "comma"} ->
            [node EXCEPT !.left = WithoutQuit(node.left),
                         !.right = WithoutQuit(node.right)]
      [] OTHER -> node

\* the evaluation of node on the entry of evaluation k, started in the
\* context evaluation k started in
Replayed(node, k) ==
    LET gs == get_stats(evals[k].path, opts.follow = "L", evals[k].before)
    IN  eval(node, <<>>, FileInfo(evals[k].path, evals[k].depth, gs.lst, gs.st),
             [quit |-> FALSE, prune_flag |-> FALSE, suppress |-> evals[k].suppress,
              open_files |-> evals[k].files, exists |-> evals[k].before,
              out |-> <<>>, err |-> <<>>, trace |-> <<>>])

C27_QuitCompletes ==
    \A k \in DOMAIN evals :
        evals[k].quit =>
            /\ \E r \in {Replayed(WithoutQuit(expr), k)} :
                  /\ evals[k].trace = r.c.trace
                  /\ evals[k].val = r.val
                  /\ evals[k].effects = r.c.out
                  /\ evals[k].reports = r.c.err
                  /\ evals[k].removed = evals[k].before \ r.c.exists
            /\ k = Len(evals)

\* -quit -print has printed the entry on which it quit
C27_Witness ==
    /\ tokens = <<"-quit", "-print">>
    /\ Len(evals) = 1 /\ evals[1].quit /\ ~evals[1].suppress
    /\ evals[1].effects = <<[act |-> "print", pos |-> <<"right">>,
                             path |-> evals[1].path, arg |-> <<>>]>>

(***************************************************************************)
(* C28: suppression by mindepth and maxdepth takes away the visible        *)
(* effects of an evaluation, not its part in the traversal.  -prune        *)
(* evaluated on a suppressed directory in pre-order sets the prune flag    *)
(* and nothing beneath the directory is evaluated; -quit evaluated on a    *)
(* suppressed entry sets the quit flag and no evaluation follows.          *)
(***************************************************************************)
ReachedOp(k, op) ==
    \E n \in NodesAt(expr, <<>>) :
        n.node.op = op /\ Evaluated(evals[k].trace, n.pos)

C28_SuppressedDecisions ==
    \A k \in DOMAIN evals :
        evals[k].suppress =>
            /\ ReachedOp(k, "prune") =>
                  /\ evals[k].prune_flag
                  /\ (evals[k].is_dir /\ evals[k].order = "pre") =>
                        \A j \in DOMAIN evals :
                            ~IsProperPrefix(evals[k].path, evals[j].path)
            /\ ReachedOp(k, "quit") =>
                  /\ evals[k].quit /\ quit
                  /\ k = Len(evals)

\* r/d, above mindepth, was pruned and the run ended without a visit of r/d/m
C28_Witness ==
    /\ pc = "exit" /\ status = 0 /\ ~quit
    /\ opts.mindepth = 2 /\ opts.maxdepth = None /\ ~opts.depth_first
    /\ \E k \in DOMAIN evals :
          /\ evals[k].path = <<"r", "d">>
          /\ evals[k].suppress /\ evals[k].prune_flag
    /\ <<"r", "e", "l">> \in EvaluatedPaths
    /\ <<"r", "d", "m">> \notin EvaluatedPaths

(***************************************************************************)
(* C29: -prune acts only on a directory evaluated in pre-order.  When the  *)
(* entry is not a directory, or in -depth mode, an evaluation that reaches *)
(* -prune evaluates the same nodes with the same values, effects, reports, *)
(* removals and quit flag as the expression with -true in its place, and   *)
(* the decision to list the entry is the one taken with no prune at all,   *)
(* whatever the prune flag holds.                                          *)
(***************************************************************************)
\* node with every -prune replaced by -true
RECURSIVE WithoutPrune(_)
WithoutPrune(node) ==
    CASE node.op = "prune" -> BoolNode(TRUE)
      [] node.op = "not" -> NotNode(WithoutPrune(node.child))
      [] node.op \in {"and", "or", "comma"} ->
            [node EXCEPT !.left = WithoutPrune(node.left),
                         !.right = WithoutPrune(node.right)]
      [] OTHER -> node

PruneIdle(k) == opts.depth_first \/ ~evals[k].is_dir

C29_EvaluationUnchanged ==
    \A k \in DOMAIN evals :
        (ReachedOp(k, "prune") /\ PruneIdle(k)) =>
            \E r \in {Replayed(WithoutPrune(expr), k)} :
                /\ evals[k].trace = r.c.trace
                /\ evals[k].val = r.val
                /\ evals[k].quit = r.c.quit
                /\ evals[k].effects = r.c.out
                /\ evals[k].reports = r.c.err
                /\ evals[k].removed = evals[k].before \ r.c.exists
                /\ evals[k].opened = r.c.open_files \ evals[k].files

\* the step of walk from its entry to the loop over the entries
Listing ==
    /\ stack # <<>> /\ Top.phase = "enter"
    /\ Len(stack') = Len(stack)
    /\ stack'[Len(stack)].phase = "children"

C29_ListingUnchanged ==
    Listing =>
        \E fr \in {stack'[Len(stack)]} :
            (opts.depth_first \/ ~fr.is_dir) =>
                fr.listed = (/\ fr.is_dir
                             /\ opts.maxdepth # None => fr.depth < opts.maxdepth
                             /\ opts.mount => FS[fr.lst].st_dev = start_dev
                             /\ opts.follow = "L" =>
                                   <<FS[fr.lst].st_dev, fr.lst>> \notin visited_dirs
                             /\ ~quit')

C29_PruneIdle == []C29_EvaluationUnchanged /\ [][C29_ListingUnchanged]_vars

\* -depth: r/d/m was evaluated before -prune was reached on r/d, and the
\* directory r/e, entered with the prune flag set, was listed all the same
C29_Witness ==
    /\ pc = "exit" /\ status = 0 /\ opts.depth_first
    /\ opts.maxdepth = None /\ opts.mindepth = 0
    /\ \E k \in DOMAIN evals :
          /\ evals[k].path = <<"r", "d">> /\ evals[k].prune_flag
          /\ \E j \in 1..(k - 1) : evals[j].path = <<"r", "d", "m">>
          /\ \E j \in (k + 1)..Len(evals) : evals[j].path = <<"r", "e", "l">>

(***************************************************************************)
(* C30: on the tree root/{a.txt (5 bytes), sub/{b.log (0 bytes)}},         *)
(* traversed from root with the default options in either order, the       *)
(* entries on which the expression evaluates true are exactly root/a.txt   *)
(* for -type f -name "*.txt", none for -type d -empty, and root/sub/b.log  *)
(* for -empty -type f; a run that is not interrupted evaluates all four    *)
(* entries.                                                                *)
(***************************************************************************)
Matches == {evals[k].path : k \in {j \in DOMAIN evals : evals[j].val}}

RootTree ==
    {<<"root">>, <<"root", "a.txt">>, <<"root", "sub">>, <<"root", "sub", "b.log">>}

ExpectedMatches(toks) ==
    CASE toks = <<"-type", "f", "-name", "*.txt">> -> {<<"root", "a.txt">>}
      [] toks = <<"-type", "d", "-empty">> -> {}
      [] toks = <<"-empty", "-type", "f">> -> {<<"root", "sub", "b.log">>}

C30_Examples ==
    (/\ paths = <<"root">>
     /\ opts \in {DefaultOptions, [DefaultOptions EXCEPT !.depth_first = TRUE]}
     /\ tokens \in {<<"-type", "f", "-name", "*.txt">>, <<"-type", "d", "-empty">>,
                    <<"-empty", "-type", "f">>}) =>
        /\ Matches \subseteq ExpectedMatches(tokens)
        /\ (pc = "exit" /\ status = 0) =>
              /\ Matches = ExpectedMatches(tokens)
              /\ EvaluatedPaths = RootTree
              /\ Len(evals) = 4

\* the run of -empty -type f on root has ended with root/sub/b.log as its
\* only match
C30_Witness ==
    /\ pc = "exit" /\ status = 0 /\ paths = <<"root">> /\ opts = DefaultOptions
    /\ tokens = <<"-empty", "-type", "f">>
    /\ Len(evals) = 4
    /\ Matches = {<<"root", "sub", "b.log">>}

(***************************************************************************)
(* Auxiliary definitions for the properties of findlike.  A root of the    *)
(* searches is one name, so a path of n names has depth n - 1.             *)
(***************************************************************************)
TreeHeight == 4

FlatDepth(path) == Len(path) - 1

\* the names of a directory that the loop of _walk_root does not skip
KeptNames(path) ==
    {name \in os_scandir(path, exists) :
        /\ ~(opts.ignore_hidden /\ is_hidden(name))
        /\ ~should_exclude(name, opts.exclude)}

\* the directory at path can be listed
Listable(path) ==
    /\ os_stat(path, exists) # None
    /\ S_ISDIR(os_stat(path, exists))
    /\ os_stat(path, exists) \notin Unreadable

\* an entry below a root that is a directory to enter: a directory, or with
\* follow_symlinks a symlink to one, that no exclude_dir pattern names
Entered(path) ==
    /\ Listable(path)
    /\ S_ISLNK(os_lstat(path, exists)) => opts.follow_symlinks
    /\ ~should_exclude(path[Len(path)], opts.exclude_dir)

\* the entries at most n levels below the directory at path, found by
\* entering every directory whose depth is less than limit (None: no limit)
RECURSIVE Below(_, _, _)
Below(path, n, limit) ==
    IF n = 0 \/ ~Listable(path) THEN {}
    ELSE UNION {{q} \cup (IF Entered(q) /\ (limit = None \/ FlatDepth(q) < limit)
                          THEN Below(q, n - 1, limit) ELSE {}) :
                   q \in {Append(path, name) : name \in KeptNames(path)}}

FlatRoots == {<<paths[i]>> : i \in 1..Len(paths)}

DirectoryRoots ==
    {r \in FlatRoots : os_lstat(r, exists) # None /\ S_ISDIR(os_lstat(r, exists))}

Yielded == {out[i] : i \in 1..Len(out)}

(***************************************************************************)
(* C31: in findlike, a search with mindepth = N yields no entry of depth   *)
(* less than N, so no root when N >= 1; the directories above N are        *)
(* entered all the same, and when the search is done every entry of depth  *)
(* N or more that lies within maxdepth and passes the filters has been     *)
(* yielded.                                                                *)
(***************************************************************************)
C31_FlatMinDepth ==
    /\ \A p \in Yielded : FlatDepth(p) >= opts.mindepth
    /\ opts.mindepth >= 1 => Yielded \cap FlatRoots = {}
    /\ pc = "done" =>
          \A r \in DirectoryRoots :
              \A q \in Below(r, TreeHeight, opts.maxdepth) :
                  (/\ FlatDepth(q) >= opts.mindepth
                   /\ opts.maxdepth # None => FlatDepth(q) <= opts.maxdepth
                   /\ matches_for_path(q, "entry", opts, exists))
                      => q \in Yielded

\* the search of r with mindepth 2 is done: r/d/m and r/e/l were yielded
\* through r/d and r/e, and nothing of depth 0 or 1
C31_Witness ==
    /\ pc = "done" /\ paths = <<"r">>
    /\ opts.mindepth = 2 /\ opts.maxdepth = None /\ ~opts.follow_symlinks
    /\ Yielded = {<<"r", "d", "m">>, <<"r", "e", "l">>}

(***************************************************************************)
(* C32: with the default Options, search yields for each root that exists, *)
(* in the order of the roots, the root first and then the entries beneath  *)
(* it, each once; a symlink is yielded and never entered.  A root that     *)
(* does not exist yields nothing, and the entries of a directory that      *)
(* cannot be read are not seen.                                            *)
(***************************************************************************)
RootIndex(p) == CHOOSE i \in 1..Len(paths) : paths[i] = p[1]

ExistingRoots == {r \in FlatRoots : os_lstat(r, exists) # None}

\* what the search of the roots before index n has to yield
ExpectedUpTo(n) ==
    UNION {{r} \cup (IF r \in DirectoryRoots THEN Below(r, TreeHeight, None) ELSE {}) :
              r \in {q \in ExistingRoots : RootIndex(q) < n}}

C32_FlatDefault ==
    opts = FlatDefaults =>
        /\ \A i, j \in 1..Len(out) :
              i < j => /\ out[i] # out[j]
                       /\ RootIndex(out[i]) <= RootIndex(out[j])
                       /\ Len(out[j]) = 1 => out[i][1] # out[j][1]
        /\ Yielded \subseteq ExpectedUpTo(ri)
        /\ \A p \in Yielded :
              \A k \in 1..(Len(p) - 1) :
                  ~S_ISLNK(os_lstat(SubSeq(p, 1, k), exists))
        /\ stack = <<>> => Yielded = ExpectedUpTo(ri)

\* the search of r is done: the symlink r/e/l was yielded, r/e/l/m was not
C32_Witness ==
    /\ pc = "done" /\ opts = FlatDefaults /\ paths = <<"r">>
    /\ out[1] = <<"r">> /\ Len(out) = 6
    /\ <<"r", "e", "l">> \in Yielded
    /\ <<"r", "e", "l", "m">> \notin Yielded

(***************************************************************************)
(* C33: in findlike, a visited entry within the depth bounds is yielded    *)
(* iff every filter that is set holds for it: a name glob compared with    *)
(* the case kept, an iname glob with the case folded, type l for the       *)
(* symlink itself, d for a directory and f for a regular file, empty for a *)
(* directory without entries and for a regular file of zero bytes, and a   *)
(* size compared with the size of the entry itself.  Whenever the search   *)
(* is between two roots, the yielded paths are the visited entries for     *)
(* which the filters hold; this covers a root that is a regular file.      *)
(***************************************************************************)
LastName(p) == Chars(p[Len(p)])

FilterName(p) == opts.name # "" => GlobMatch(LastName(p), Chars(opts.name))

FilterIName(p) ==
    opts.iname # "" => GlobMatch(lower(LastName(p)), lower(Chars(opts.iname)))

FilterType(p) ==
    opts.type # "" =>
        FS[os_lstat(p, exists)].st_mode =
            (CASE opts.type = "l" -> "lnk" [] opts.type = "d" -> "dir"
               [] opts.type = "f" -> "reg")

FilterEmpty(p) ==
    opts.empty =>
        \/ /\ S_ISDIR(os_lstat(p, exists))
           /\ os_lstat(p, exists) \notin Unreadable
           /\ os_scandir(p, exists) = {}
        \/ /\ S_ISREG(os_lstat(p, exists))
           /\ FS[os_lstat(p, exists)].st_size = 0

FilterSize(p) ==
    CASE opts.size.op = "lt" -> FS[os_lstat(p, exists)].st_size < opts.size.ref
      [] opts.size.op = "gt" -> FS[os_lstat(p, exists)].st_size > opts.size.ref
      [] opts.size.op = "eq" -> FS[os_lstat(p, exists)].st_size = opts.size.ref
      [] OTHER -> TRUE

FiltersHold(p) ==
    FilterName(p) /\ FilterIName(p) /\ FilterType(p) /\ FilterEmpty(p) /\ FilterSize(p)

\* the entries the search of the roots before index n visits
VisitedUpTo(n) ==
    UNION {{r} \cup (IF r \in DirectoryRoots
                     THEN Below(r, TreeHeight, opts.maxdepth) ELSE {}) :
              r \in {q \in ExistingRoots : RootIndex(q) < n}}

C33_FlatFilters ==
    (opts.mindepth = 0 /\ opts.maxdepth = None) =>
        /\ Yielded \subseteq {p \in VisitedUpTo(ri) : FiltersHold(p)}
        /\ stack = <<>> => Yielded = {p \in VisitedUpTo(ri) : FiltersHold(p)}

(***************************************************************************)
(* C34: parse_size maps an optional sign (+ to gt, - to lt, none to eq), a *)
(* string of digits and an optional unit in either case (b = 1, k = 1024,  *)
(* m = 1024^2, g = 1024^3, t = 1024^4, none = b) to the pair of the        *)
(* operator and the number times the unit; the empty string, a string      *)
(* without digits and a unit that is not known raise ValueError.           *)
(***************************************************************************)
\* the runs of digits of the input
DigitRuns ==
    {r \in {SubSeq(input, i, j) : i, j \in 1..Len(input)} :
        r # <<>> /\ \A k \in 1..Len(r) : r[k] \in {"0", "1", "2"}}

UnitPower(u) ==
    CASE u = <<>> -> 0
      [] u \in {<<"b">>, <<"B">>} -> 0
      [] u \in {<<"k">>, <<"K">>} -> 1
      [] u \in {<<"m">>, <<"M">>} -> 2
      [] u \in {<<"g">>, <<"G">>} -> 3
      [] u \in {<<"t">>, <<"T">>} -> 4

KnownUnits ==
    {<<>>} \cup {<<c>> : c \in {"b", "B", "k", "K", "m", "M", "g", "G", "t", "T"}}

\* the number a sequence of digits in base 1024 stands for
RECURSIVE BigValue(_)
BigValue(ls) == IF ls = <<>> THEN 0 ELSE Head(ls) + 1024 * BigValue(Tail(ls))

\* bytes is n * 1024^e
IsProduct(bytes, n, e) ==
    IF n = 0 THEN bytes = <<>>
    ELSE /\ Len(bytes) > e
         /\ \A i \in 1..e : bytes[i] = 0
         /\ bytes[Len(bytes)] # 0
         /\ BigValue(SubSeq(bytes, e + 1, Len(bytes))) = n

C34_ParseSize ==
    pc = "exit" =>
        /\ \A s \in {<<>>, <<"+">>, <<"-">>}, n \in DigitRuns, u \in KnownUnits :
              input = s \o n \o u =>
                  /\ result.ok
                  /\ result.op = (CASE s = <<"+">> -> "gt" [] s = <<"-">> -> "lt"
                                    [] OTHER -> "eq")
                  /\ IsProduct(result.bytes, Decimal(n, 0), UnitPower(u))
        /\ input = <<>> => ~result.ok
        /\ DigitRuns = {} => ~result.ok
        /\ (\E i \in 1..Len(input) : input[i] = "x") => ~result.ok
        /\ \A s \in {<<>>, <<"+">>, <<"-">>}, n \in DigitRuns, u, v \in KnownUnits \ {<<>>} :
              input = s \o n \o u \o v => ~result.ok

\* -2M is less than 2 * 1024^2 bytes and 1t is 1024^4 bytes
C34_Witness ==
    /\ pc = "exit"
    /\ \/ input = <<"-", "2", "M">>
          /\ result = [ok |-> TRUE, op |-> "lt", bytes |-> <<0, 0, 2>>]
       \/ input = <<"1", "t">>
          /\ result = [ok |-> TRUE, op |-> "eq", bytes |-> <<0, 0, 0, 0, 1>>]

(***************************************************************************)
(* C35: the findlike command returns 0 after it has written the paths that *)
(* search yielded, in their order and nothing else: each path followed by  *)
(* a NUL with -print0, each path followed by a newline otherwise, for any  *)
(* number of paths, none included.  A -size that parse_size rejects makes  *)
(* main return 2 before the search starts.                                 *)
(***************************************************************************)
RECURSIVE Terminated(_, _)
Terminated(ps, sep) ==
    IF ps = <<>> THEN <<>> ELSE <<PathOut(Head(ps)), sep>> \o Terminated(Tail(ps), sep)

InvalidSize == input.given /\ ~parse_size(input.size).ok

C35_CliOutput ==
    /\ (pc = "exit" /\ status = 0) =>
          stdout = Terminated(out, IF input.print0 THEN Nul ELSE NewLine)
    /\ (InvalidSize /\ pc # "main") =>
          /\ pc = "exit" /\ status = 2
          /\ ri = 1 /\ out = <<>> /\ stdout = <<>>
    /\ status = 2 => InvalidSize

(***************************************************************************)
(* C36: when maxdepth is set, walk is never called on an entry deeper than *)
(* maxdepth and no such entry is evaluated, with and without -depth.  A    *)
(* directory at depth maxdepth is not listed, and unless the traversal     *)
(* has quit or is interrupted it is evaluated before walk returns from it. *)
(***************************************************************************)
C36_WithinMaxDepth ==
    opts.maxdepth # None =>
        /\ \A k \in DOMAIN evals : evals[k].depth <= opts.maxdepth
        /\ \A i \in DOMAIN stack :
              /\ stack[i].depth <= opts.maxdepth
              /\ stack[i].depth = opts.maxdepth =>
                    ~stack[i].listed /\ stack[i].entries = {}

\* walk returns from a directory at depth maxdepth
ReturnsAtMaxDepth ==
    /\ pc = "traverse" /\ pc' = "traverse" /\ stack # <<>> /\ stack' = Pop
    /\ Top.phase = "children" /\ Top.is_dir
    /\ opts.maxdepth # None /\ Top.depth = opts.maxdepth

C36_EvaluatedAtMaxDepth ==
    (ReturnsAtMaxDepth /\ ~quit') =>
        \E k \in DOMAIN evals' :
            /\ evals'[k].path = Top.path
            /\ evals'[k].order = IF opts.depth_first THEN "post" ELSE "pre"

C36_MaxDepth == []C36_WithinMaxDepth /\ [][C36_EvaluatedAtMaxDepth]_vars

\* maxdepth 1 on r with -depth: r/d and r/e were evaluated, nothing beneath
\* them was
C36_Witness ==
    /\ pc = "exit" /\ status = 0 /\ paths = <<"r">>
    /\ opts.maxdepth = 1 /\ opts.mindepth = 0 /\ opts.depth_first
    /\ EvaluatedPaths = {<<"r">>, <<"r", "a">>, <<"r", "d">>, <<"r", "e">>}
    /\ Len(evals) = 4

(***************************************************************************)
(* C37: no entry is evaluated twice, and a directory is evaluated in       *)
(* post-order exactly when -depth is set, every other entry in pre-order.  *)
(* When a traversal in which no evaluation raised quit or prune has ended, *)
(* the evaluated entries are, for each start path that exists, the start   *)
(* path and every entry reached from it through readable directories       *)
(* within maxdepth (and on the start device under -mount).                 *)
(***************************************************************************)
\* walk lists the directory at path, found at depth depth
Descended(path, depth, sdev) ==
    /\ S_ISDIR(os_lstat(path, Inodes))
    /\ os_lstat(path, Inodes) \notin Unreadable
    /\ opts.maxdepth # None => depth < opts.maxdepth
    /\ opts.mount => FS[os_lstat(path, Inodes)].st_dev = sdev

RECURSIVE ReachableBelow(_, _, _)
ReachableBelow(path, depth, sdev) ==
    IF ~Descended(path, depth, sdev) THEN {}
    ELSE UNION {{q} \cup ReachableBelow(q, depth + 1, sdev) :
                   q \in {Append(path, name) : name \in os_scandir(path, Inodes)}}

Reachable ==
    UNION {{r} \cup ReachableBelow(r, 0, FS[os_lstat(r, Inodes)].st_dev) :
              r \in {q \in {<<paths[i]>> : i \in 1..Len(paths)} :
                        os_lstat(q, Inodes) # None}}

NothingRaised == \A k \in DOMAIN evals : ~evals[k].quit /\ ~evals[k].prune_flag

C37_EvaluatedOnce ==
    /\ \A j, k \in DOMAIN evals : j < k => evals[j].path # evals[k].path
    /\ \A k \in DOMAIN evals :
          evals[k].order = IF opts.depth_first /\ evals[k].is_dir THEN "post" ELSE "pre"
    /\ NothingRaised => EvaluatedPaths \subseteq Reachable
    /\ (pc = "exit" /\ status = 0 /\ NothingRaised) => EvaluatedPaths = Reachable

\* -depth on r without limits: the six entries were evaluated once each, the
\* three directories in post-order
C37_Witness ==
    /\ pc = "exit" /\ status = 0 /\ paths = <<"r">> /\ tokens = <<"-print">>
    /\ opts.depth_first /\ opts.maxdepth = None /\ opts.mindepth = 0
    /\ Len(evals) = 6 /\ NothingRaised
    /\ evals[6].path = <<"r">> /\ evals[6].order = "post"


(***************************************************************************)
(* C38: an expression that ends in -a, -and, -o, -or, a comma, ! or -not   *)
(* is parsed as the same expression with -true after it: when the tokens   *)
(* run out where an operand is expected the operand is the constant true   *)
(* and the parser does not fail for it.  So an expression that ends in -o  *)
(* or in a comma is true on every entry, -false -o with it, and ! alone is *)
(* false on every entry.                                                   *)
(***************************************************************************)
TrailingOperators == {"-a", "-and", "-o", "-or", ",", "!", "-not"}

EndsInOperator ==
    /\ ~argv_empty /\ tokens # <<>>
    /\ tokens[Len(tokens)] \in TrailingOperators

\* the expression with the constant true written out in the place left open
Completed == parse_expression(tokens \o <<"-true">>)

C38_MissingOperand ==
    (EndsInOperator /\ pc # "parse") =>
        /\ Completed.ok =>
              /\ expr = Completed.node
              /\ ~(pc = "exit" /\ status = 1)
              /\ tokens[Len(tokens)] \in {"-o", "-or", ","} =>
                    \A k \in DOMAIN evals : evals[k].val
        /\ ~Completed.ok => pc = "exit" /\ status = 1
        /\ tokens = <<"-false", "-o">> =>
              /\ expr = OrNode(BoolNode(FALSE), BoolNode(TRUE))
              /\ \A k \in DOMAIN evals : evals[k].val
        /\ tokens = <<"!">> =>
              /\ expr = NotNode(BoolNode(TRUE))
              /\ \A k \in DOMAIN evals : ~evals[k].val

\* -false -o has run to its end on a tree and was true on every entry, and so
\* has ! with false on every entry
C38_Witness ==
    /\ pc = "exit" /\ status = 0 /\ Len(evals) > 1
    /\ \/ tokens = <<"-false", "-o">> /\ \A k \in DOMAIN evals : evals[k].val
       \/ tokens = <<"!">> /\ \A k \in DOMAIN evals : ~evals[k].val


(***************************************************************************)
(* C39: in findlike, an entry below a root whose name matches a pattern of *)
(* exclude_dir is matched like any other entry: it is yielded when it      *)
(* passes the filters (and only then), but its directory is never opened,  *)
(* so nothing beneath it is visited or yielded.  A root is opened whatever *)
(* its name.                                                               *)
(***************************************************************************)
ExcludedDir(name) == should_exclude(name, opts.exclude_dir)

\* the entries the search is to yield: within the depth limits, with the filters
Wanted(q) ==
    /\ FlatDepth(q) >= opts.mindepth
    /\ opts.maxdepth # None => FlatDepth(q) <= opts.maxdepth
    /\ matches_for_path(q, "entry", opts, exists)

C39_ExcludeDir ==
    /\ \A i \in DOMAIN stack :
          stack[i].depth >= 1 => ~ExcludedDir(stack[i].path[Len(stack[i].path)])
    /\ \A p \in Yielded :
          /\ \A n \in 2..(Len(p) - 1) : ~ExcludedDir(p[n])
          /\ Len(p) >= 2 => matches_for_path(p, "entry", opts, exists)
    /\ pc = "done" =>
          \A r \in DirectoryRoots :
              \A q \in Below(r, TreeHeight, opts.maxdepth) :
                  /\ (ExcludedDir(q[Len(q)]) /\ Wanted(q)) => q \in Yielded
                  /\ (ExcludedDir(r[1]) /\ Wanted(q)) => q \in Yielded

\* r/d was yielded and r/d/m was not; and under the pattern r the root r was
\* opened all the same
C39_Witness ==
    /\ pc = "done" /\ paths = <<"r">>
    /\ \/ /\ opts.exclude_dir = {"d"} /\ opts.type = ""
          /\ <<"r", "d">> \in Yielded /\ <<"r", "d", "m">> \notin Yielded
          /\ <<"r", "e", "l">> \in Yielded
       \/ /\ opts.exclude_dir = {"r", "sub"}
          /\ <<"r", "d", "m">> \in Yielded


(***************************************************************************)
(* C40: in findlike, search is exhausted after finitely many steps on      *)
(* every tree, also when it follows symlinks and a symlink leads to a      *)
(* directory above itself: no directory is opened through more symlinks    *)
(* than the system follows in one path, so the stack stays bounded, and    *)
(* every search comes to its end.                                          *)
(***************************************************************************)
C40_BoundedDescent ==
    \A i \in DOMAIN stack :
        /\ stack[i].depth = i - 1
        /\ Len(stack[i].path) = i
        /\ followed(cwd, stack[i].path, exists) <= SymloopMax
        /\ i <= SymloopMax + TreeHeight

====
